---------------------------- MODULE Spec2Model ----------------------------
(***************************************************************************)
(* jsonpath.c: binary encoding of a jsonpath parse tree                    *)
(* (flattenJsonPathParseItem), the cursor over the encoded buffer          *)
(* (jspInitByBuffer and the jspGet* accessors), the printer                *)
(* (printJsonPathItem) and the mutability analysis (jspIsMutableWalker).   *)
(*                                                                         *)
(* A StringInfo is a sequence of bytes (0..255); byte offset k of the C    *)
(* buffer is element k+1 of the sequence.  An int32 is stored in four      *)
(* bytes, little-endian, two's complement.  Text produced by the printer   *)
(* is a sequence of one-character strings.                                 *)
(***************************************************************************)
EXTENDS Integers, Sequences, FiniteSets, TLC

(***************************************************************************)
(* Bounds of the explored inputs.                                          *)
(***************************************************************************)
MaxStrLen == 2      \* longest key / string / variable / pattern payload
MaxElems == 2       \* most subscripts, sequence elements, object fields
MaxWrap == 2        \* deepest nesting of one-hole contexts around a probe
MaxStackDepth == 16 \* recursion depth at which check_stack_depth() fails
StackMargin == 8    \* frames of stack beyond that depth

(***************************************************************************)
(* Item kinds (enum JsonPathItemType).  The kind tag written to the buffer *)
(* is the index of the kind in this tuple.                                 *)
(***************************************************************************)
JsonPathItemType ==
    << "jpiNull", "jpiString", "jpiNumeric", "jpiBool", "jpiAnd", "jpiOr",
       "jpiNot", "jpiIsUnknown", "jpiEqual", "jpiNotEqual", "jpiLess",
       "jpiGreater", "jpiLessOrEqual", "jpiGreaterOrEqual", "jpiAdd",
       "jpiSub", "jpiMul", "jpiDiv", "jpiMod", "jpiPlus", "jpiMinus",
       "jpiAnyArray", "jpiAnyKey", "jpiIndexArray", "jpiAny", "jpiKey",
       "jpiCurrent", "jpiRoot", "jpiVariable", "jpiFilter", "jpiExists",
       "jpiType", "jpiSize", "jpiAbs", "jpiFloor", "jpiCeiling",
       "jpiDouble", "jpiDatetime", "jpiKeyValue", "jpiSubscript", "jpiLast",
       "jpiStartsWith", "jpiLikeRegex", "jpiSequence", "jpiArray",
       "jpiObject" >>

TypeCode(t) == CHOOSE i \in 1..Len(JsonPathItemType) : JsonPathItemType[i] = t

TypeOfCode(c) ==
    IF c \in 1..Len(JsonPathItemType) THEN JsonPathItemType[c] ELSE "unrecognized"

StringTypes == {"jpiString", "jpiVariable", "jpiKey"}

BinaryTypes ==
    {"jpiAnd", "jpiOr", "jpiEqual", "jpiNotEqual", "jpiLess", "jpiGreater",
     "jpiLessOrEqual", "jpiGreaterOrEqual", "jpiAdd", "jpiSub", "jpiMul",
     "jpiDiv", "jpiMod", "jpiStartsWith"}

ArgTypes ==
    {"jpiFilter", "jpiIsUnknown", "jpiNot", "jpiPlus", "jpiMinus",
     "jpiExists", "jpiDatetime", "jpiArray"}

NoPayloadTypes ==
    {"jpiNull", "jpiRoot", "jpiAnyArray", "jpiAnyKey", "jpiType", "jpiSize",
     "jpiAbs", "jpiFloor", "jpiCeiling", "jpiDouble", "jpiKeyValue"}

(***************************************************************************)
(* Sizes fixed by the platform.                                            *)
(***************************************************************************)
JSONPATH_HDRSZ == 8         \* offsetof(JsonPath, data): varlena length + header
PG_UINT32_MAX == -1         \* the uint32 of all ones, held by its int32 pattern
Int32Size == 4              \* sizeof(int32)

(***************************************************************************)
(* Parse items (JsonPathParseItem).  An optional pointer is a sequence of  *)
(* length 0 (NULL) or 1.  kids holds the child pointers of the kind:       *)
(* <<left, right>>, <<arg>>, <<expr>>, <<from1, to1, from2, to2, ...>>,    *)
(* the sequence elements, or <<key1, val1, key2, val2, ...>>.              *)
(* str is the string / pattern payload (bytes), num the numeric value, the *)
(* boolean (0/1), the regex flags or anybounds.first, num2 anybounds.last. *)
(***************************************************************************)
Item(type, str, num, num2, kids, next) ==
    [type |-> type, str |-> str, num |-> num, num2 |-> num2,
     kids |-> kids, next |-> next]

NULL == << >>
Ptr(item) == << item >>


(***************************************************************************)
(* StringInfo: the append-only byte buffer.                                *)
(***************************************************************************)
RECURSIVE Repeat(_, _)
Repeat(b, n) == IF n <= 0 THEN << >> ELSE << b >> \o Repeat(b, n - 1)

\* The four bytes of an int32 in memory (two's complement, little-endian).
\* A uint32 is held by the int32 with the same bytes.
Int32Bytes(v) ==
    << v % 256, (v \div 256) % 256, (v \div 65536) % 256,
       (v \div 16777216) % 256 >>

\* *(int32 *) (data + off)
ReadInt32(data, off) ==
    LET hi == data[off + 4]
    IN  data[off + 1] + 256 * data[off + 2] + 65536 * data[off + 3]
            + 16777216 * (IF hi >= 128 THEN hi - 256 ELSE hi)

\* *(int32 *) (data + off) = v
WriteInt32(data, off, v) ==
    SubSeq(data, 1, off) \o Int32Bytes(v) \o SubSeq(data, off + 5, Len(data))

INTALIGN(len) == ((len + 3) \div 4) * 4

appendBinaryStringInfo(buf, bytes) == buf \o bytes

appendStringInfoChar(buf, ch) == buf \o << ch >>

\* appendStringInfoSpaces() appends blanks (0x20).
appendStringInfoZeros(buf, count) == buf \o Repeat(0, count)

appendStringInfoSpaces(buf, count) == buf \o Repeat(32, count)

alignStringInfoIntNoPad(buf) == buf

alignStringInfoInt(buf) == buf \o Repeat(0, INTALIGN(Len(buf)) - Len(buf))

\* Appends a zero int32; the slot is at the old end of the buffer.
reserveSpaceForItemPointer(buf) == appendBinaryStringInfo(buf, Int32Bytes(0))

(***************************************************************************)
(* Numeric values: a varlena of VARSIZE bytes, the 4-byte length word,     *)
(* a 2-byte header and one 2-byte base-10000 digit unless the value is 0.  *)
(***************************************************************************)
NumericVarsize(n) == IF n = 0 THEN 6 ELSE 8

NumericBytes(n) ==
    Int32Bytes(4 * NumericVarsize(n)) \o << 0, 0 >>
        \o (IF n = 0 THEN << >> ELSE << n % 256, n \div 256 >>)

NumericValue(data, off) ==
    IF ReadInt32(data, off) \div 4 = 6 THEN 0
    ELSE data[off + 7] + 256 * data[off + 8]


(***************************************************************************)
(* Encoder.  The encoding context carries the buffer, the extensions flag, *)
(* the error raised (ereport unwinds the whole encode), and two records of *)
(* what was written: nodes, the positions returned for the items, and      *)
(* slots, the buffer offsets of the int32 offset fields.                   *)
(***************************************************************************)
OK == "ok"
ERR_EXTENSIONS == "jsonpath contains extended operators that were not enabled"
ERR_CURRENT == "@ is not allowed in root expressions"
ERR_LAST == "LAST is allowed only in array subscripts"
ERR_STACK_DEPTH == "stack depth limit exceeded"
\* The process ran out of stack (the segmentation fault of a recursion
\* that no check_stack_depth() stopped).
STACK_OVERFLOW == "stack overflow"

ERR_UNRECOGNIZED == "unrecognized jsonpath item type"

Raise(cxt, e) == [cxt EXCEPT !.err = e]

Put(cxt, bytes) == [cxt EXCEPT !.buf = appendBinaryStringInfo(@, bytes)]

Reserve(cxt) ==
    [cxt EXCEPT !.buf = reserveSpaceForItemPointer(@),
                !.slots = @ \cup {Len(cxt.buf)}]

\* appendStringInfoSpaces(buf, sizeof(int32) * n): an array of n offset fields
ReserveArray(cxt, n) ==
    [cxt EXCEPT !.buf = appendStringInfoSpaces(@, Int32Size * n),
                !.slots = @ \cup {Len(cxt.buf) + Int32Size * i : i \in 0..(n - 1)},
                !.spaces = @ \cup {Len(cxt.buf) + Int32Size * i : i \in 0..(n - 1)}]

\* A store into a reserved offset field; `patched` keeps the fields stored to.
Patch(cxt, off, v) ==
    [cxt EXCEPT !.buf = WriteInt32(@, off, v), !.patched = @ \cup {off}]

\* TRUE when the recursion is too deep
check_stack_depth(depth) == depth > MaxStackDepth

checkJsonPathExtensionsEnabledNever(cxt) == cxt

checkJsonPathExtensionsEnabled(cxt) ==
    IF ~cxt.ext THEN Raise(cxt, ERR_EXTENSIONS) ELSE cxt

argNestingLevelAllArgs(type) == IF type \in ArgTypes THEN 1 ELSE 0

\* int argNestingLevel = 0; ... case jpiFilter: argNestingLevel++;
argNestingLevel(type) == IF type = "jpiFilter" THEN 1 ELSE 0

\* case jpiCurrent: if (nestingLevel <= 0) ereport(ERROR, ...)
currentAllowed(nestingLevel) == ~(nestingLevel <= 0)

subscriptFlagInherited(insideArraySubscript) == insideArraySubscript

\* The insideArraySubscript argument passed for a subscript's from and to.
subscriptFlag(insideArraySubscript) == TRUE

RECURSIVE flattenJsonPathParseItem(_, _, _, _, _)
RECURSIVE flattenSubscripts(_, _, _, _, _, _, _, _)
RECURSIVE flattenSequence(_, _, _, _, _, _, _, _)
RECURSIVE flattenObject(_, _, _, _, _, _, _, _)

flattenIntoAbsolute(cxt, ptr, pos, slot, nestingLevel, insideArraySubscript, depth) ==
    LET r == flattenJsonPathParseItem(cxt, ptr[1], nestingLevel,
                                      insideArraySubscript, depth)
    IN  IF r.cxt.err # OK THEN r.cxt ELSE Patch(r.cxt, slot, r.pos)

\* One child: flattens it, then stores its displacement from pos in the slot
\* at buffer offset `slot`:  *(int32 *) (buf->data + slot) = chld - pos.
flattenInto(cxt, ptr, pos, slot, nestingLevel, insideArraySubscript, depth) ==
    LET r == flattenJsonPathParseItem(cxt, ptr[1], nestingLevel,
                                      insideArraySubscript, depth)
    IN  IF r.cxt.err # OK THEN r.cxt ELSE Patch(r.cxt, slot, r.pos - pos)

\* case jpiAnd ... jpiStartsWith
flattenBinary(cxt, item, pos, nestingLevel, insideArraySubscript, depth) ==
    LET left == Len(cxt.buf)
        c1 == Reserve(cxt)
        right == Len(c1.buf)
        c2 == Reserve(c1)
        lvl == nestingLevel + argNestingLevel(item.type)
        c3 == IF item.kids[1] = NULL THEN Patch(c2, left, pos - pos)
              ELSE flattenInto(c2, item.kids[1], pos, left, lvl,
                               insideArraySubscript, depth)
    IN  IF c3.err # OK THEN c3
        ELSE IF item.kids[2] = NULL THEN Patch(c3, right, pos - pos)
        ELSE flattenInto(c3, item.kids[2], pos, right, lvl,
                         insideArraySubscript, depth)

\* case jpiLikeRegex
flattenLikeRegex(cxt, item, pos, nestingLevel, insideArraySubscript, depth) ==
    LET c1 == Put(cxt, Int32Bytes(item.num))
        offs == Len(c1.buf)
        c2 == Reserve(c1)
        c3 == Put(c2, Int32Bytes(Len(item.str)) \o item.str \o << 0 >>)
    IN  flattenInto(c3, item.kids[1], pos, offs, nestingLevel,
                    insideArraySubscript, depth)

\* case jpiFilter ... jpiArray
flattenArg(cxt, item, pos, nestingLevel, insideArraySubscript, depth) ==
    LET arg == Len(cxt.buf)
        c1 == Reserve(cxt)
        c2 == IF item.type = "jpiArray"
              THEN checkJsonPathExtensionsEnabled(c1) ELSE c1
    IN  IF c2.err # OK THEN c2
        ELSE IF item.kids[1] = NULL THEN c2
        ELSE flattenInto(c2, item.kids[1], pos, arg,
                         nestingLevel + argNestingLevel(item.type),
                         insideArraySubscript, depth)

\* case jpiIndexArray: the loop from subscript i on
flattenSubscripts(cxt, item, pos, offset, i, nestingLevel, insideArraySubscript, depth) ==
    IF i >= Len(item.kids) \div 2 THEN cxt
    ELSE
        LET from == flattenJsonPathParseItem(cxt, item.kids[2 * i + 1][1],
                        nestingLevel, subscriptFlag(insideArraySubscript), depth)
            frompos == from.pos - pos
        IN  IF from.cxt.err # OK THEN from.cxt
            ELSE
                LET to == IF item.kids[2 * i + 2] # NULL
                          THEN flattenJsonPathParseItem(from.cxt,
                                   item.kids[2 * i + 2][1], nestingLevel,
                                   subscriptFlag(insideArraySubscript), depth)
                          ELSE [cxt |-> from.cxt, pos |-> pos]
                    topos == IF item.kids[2 * i + 2] # NULL
                             THEN to.pos - pos ELSE 0
                IN  IF to.cxt.err # OK THEN to.cxt
                    ELSE flattenSubscripts(
                             Patch(Patch(to.cxt,
                                         offset + i * 2 * Int32Size, frompos),
                                   offset + i * 2 * Int32Size + Int32Size,
                                   topos),
                             item, pos, offset, i + 1, nestingLevel,
                             insideArraySubscript, depth)

\* case jpiSequence: the foreach loop from element i (1-based) on
flattenSequence(cxt, item, pos, offset, i, nestingLevel, insideArraySubscript, depth) ==
    IF i > Len(item.kids) THEN cxt
    ELSE
        LET c1 == flattenInto(cxt, item.kids[i], pos, offset, nestingLevel,
                              insideArraySubscript, depth)
        IN  IF c1.err # OK THEN c1
            ELSE flattenSequence(c1, item, pos, offset + Int32Size, i + 1,
                                 nestingLevel, insideArraySubscript, depth)

\* case jpiObject: the foreach loop from field i (0-based) on
flattenObject(cxt, item, pos, offset, i, nestingLevel, insideArraySubscript, depth) ==
    IF i >= Len(item.kids) \div 2 THEN cxt
    ELSE
        LET key == flattenJsonPathParseItem(cxt, item.kids[2 * i + 1][1],
                       nestingLevel, insideArraySubscript, depth)
        IN  IF key.cxt.err # OK THEN key.cxt
            ELSE
                LET val == flattenJsonPathParseItem(key.cxt,
                               item.kids[2 * i + 2][1], nestingLevel,
                               insideArraySubscript, depth)
                IN  IF val.cxt.err # OK THEN val.cxt
                    ELSE flattenObject(
                             Patch(Patch(val.cxt, offset, key.pos - pos),
                                   offset + Int32Size, val.pos - pos),
                             item, pos, offset + 2 * Int32Size, i + 1,
                             nestingLevel, insideArraySubscript, depth)

\* switch (item->type): the payload of the item starting at pos
flattenPayload(cxt, item, pos, nestingLevel, insideArraySubscript, depth) ==
    CASE item.type \in StringTypes ->
            Put(cxt, Int32Bytes(Len(item.str)) \o item.str \o << 0 >>)
      [] item.type = "jpiNumeric" -> Put(cxt, NumericBytes(item.num))
      [] item.type = "jpiBool" -> Put(cxt, << item.num >>)
      [] item.type \in BinaryTypes ->
            flattenBinary(cxt, item, pos, nestingLevel, insideArraySubscript,
                          depth)
      [] item.type = "jpiLikeRegex" ->
            flattenLikeRegex(cxt, item, pos, nestingLevel,
                             insideArraySubscript, depth)
      [] item.type \in ArgTypes ->
            flattenArg(cxt, item, pos, nestingLevel, insideArraySubscript,
                       depth)
      [] item.type \in NoPayloadTypes -> cxt
      [] item.type = "jpiCurrent" ->
            IF currentAllowed(nestingLevel) THEN cxt
            ELSE Raise(cxt, ERR_CURRENT)
      [] item.type = "jpiLast" ->
            IF ~insideArraySubscript THEN Raise(cxt, ERR_LAST) ELSE cxt
      [] item.type = "jpiIndexArray" ->
            LET nelems == Len(item.kids) \div 2
                c1 == Put(cxt, Int32Bytes(nelems))
                offset == Len(c1.buf)
            IN  flattenSubscripts(ReserveArray(c1, 2 * nelems), item, pos,
                                  offset, 0, nestingLevel,
                                  insideArraySubscript, depth)
      [] item.type = "jpiAny" ->
            Put(cxt, Int32Bytes(item.num) \o Int32Bytes(item.num2))
      [] item.type = "jpiSequence" ->
            LET nelems == Len(item.kids)
                c0 == checkJsonPathExtensionsEnabled(cxt)
                c1 == Put(c0, Int32Bytes(nelems))
                offset == Len(c1.buf)
            IN  IF c0.err # OK THEN c0
                ELSE flattenSequence(ReserveArray(c1, nelems), item, pos,
                                     offset, 1, nestingLevel,
                                     insideArraySubscript, depth)
      [] item.type = "jpiObject" ->
            LET nfields == Len(item.kids) \div 2
                c0 == checkJsonPathExtensionsEnabled(cxt)
                c1 == Put(c0, Int32Bytes(nfields))
                offset == Len(c1.buf)
            IN  IF c0.err # OK THEN c0
                ELSE flattenObject(ReserveArray(c1, 2 * nfields), item, pos,
                                   offset, 0, nestingLevel,
                                   insideArraySubscript, depth)
      [] OTHER -> Raise(cxt, ERR_UNRECOGNIZED)

\* Returns [cxt, pos]: the context after the item, its children and its
\* successors were written, and the position of the item.  depth counts the
\* active calls.
flattenJsonPathParseItem(cxt, item, nestingLevel, insideArraySubscript, depth) ==
    LET pos == Len(cxt.buf) - JSONPATH_HDRSZ
    IN  IF check_stack_depth(depth + 1)
        THEN [cxt |-> Raise(cxt, ERR_STACK_DEPTH), pos |-> pos]
        ELSE
            LET c0 == [cxt EXCEPT !.nodes = @ \cup {pos}]
                c1 == [c0 EXCEPT !.buf = alignStringInfoInt(
                           appendStringInfoChar(@, TypeCode(item.type)))]
                next == Len(c1.buf)
                c2 == Reserve(c1)
                c3 == flattenPayload(c2, item, pos, nestingLevel,
                                     insideArraySubscript, depth + 1)
            IN  IF c3.err # OK THEN [cxt |-> c3, pos |-> pos]
                ELSE IF item.next # NULL
                THEN [cxt |-> flattenInto(c3, item.next, pos, next,
                                          nestingLevel, insideArraySubscript,
                                          depth + 1),
                      pos |-> pos]
                ELSE [cxt |-> c3, pos |-> pos]


(***************************************************************************)
(* Cursor (JsonPathItem).  A position is an offset from the start of the   *)
(* path data, which lies JSONPATH_HDRSZ bytes into the (aligned) value.    *)
(* Fields the kind does not set are 0.                                     *)
(***************************************************************************)
PathByte(path, p) == path[JSONPATH_HDRSZ + p + 1]

PathInt32(path, p) == ReadInt32(path, JSONPATH_HDRSZ + p)

\* INTALIGN((uintptr_t) (base + pos)) - (uintptr_t) base, as a position
AlignPos(p) == INTALIGN(JSONPATH_HDRSZ + p) - JSONPATH_HDRSZ

EmptyItem ==
    [base |-> 0, type |-> "unrecognized", nextPos |-> 0, datalen |-> 0,
     data |-> 0, left |-> 0, right |-> 0, arg |-> 0, flags |-> 0,
     expr |-> 0, patternlen |-> 0, pattern |-> 0, nelems |-> 0, elems |-> 0,
     first |-> 0, last |-> 0]

jspInitByBuffer(path, base, pos) ==
    LET b == base + pos
        type == TypeOfCode(PathByte(path, b))
        p1 == AlignPos(b + 1)
        p2 == p1 + Int32Size
        v == [EmptyItem EXCEPT !.base = b, !.type = type,
                               !.nextPos = PathInt32(path, p1)]
    IN  CASE type \in StringTypes ->
                [v EXCEPT !.datalen = PathInt32(path, p2),
                          !.data = p2 + Int32Size]
          [] type \in {"jpiNumeric", "jpiBool"} -> [v EXCEPT !.data = p2]
          [] type \in BinaryTypes ->
                [v EXCEPT !.left = PathInt32(path, p2),
                          !.right = PathInt32(path, p2 + Int32Size)]
          [] type = "jpiLikeRegex" ->
                [v EXCEPT !.flags = PathInt32(path, p2),
                          !.expr = PathInt32(path, p2 + Int32Size),
                          !.patternlen = PathInt32(path, p2 + 2 * Int32Size),
                          !.pattern = p2 + 3 * Int32Size]
          [] type \in ArgTypes -> [v EXCEPT !.arg = PathInt32(path, p2)]
          [] type \in {"jpiIndexArray", "jpiSequence", "jpiObject"} ->
                [v EXCEPT !.nelems = PathInt32(path, p2),
                          !.elems = p2 + Int32Size]
          [] type = "jpiAny" ->
                [v EXCEPT !.first = PathInt32(path, p2),
                          !.last = PathInt32(path, p2 + Int32Size)]
          [] OTHER -> v

jspInit(path) == jspInitByBuffer(path, 0, 0)

jspHasNext(v) == v.nextPos > 0

jspGetNext(path, v) == jspInitByBuffer(path, v.base, v.nextPos)

jspGetArg(path, v) == jspInitByBuffer(path, v.base, v.arg)

jspGetLeftArg(path, v) == jspInitByBuffer(path, v.base, v.left)

jspGetRightArgAsLeft(path, v) == jspInitByBuffer(path, v.base, v.left)

jspGetRightArg(path, v) == jspInitByBuffer(path, v.base, v.right)

jspGetBool(path, v) == PathByte(path, v.data) # 0

jspGetNumeric(path, v) == NumericValue(path, JSONPATH_HDRSZ + v.data)

\* The NUL-terminated bytes at position p.
RECURSIVE CString(_, _)
CString(path, p) ==
    IF PathByte(path, p) = 0 THEN << >>
    ELSE << PathByte(path, p) >> \o CString(path, p + 1)

jspGetString(path, v) == CString(path, v.data)

\* v->content.array.elems[i].from and .to
SubscriptFrom(path, v, i) == PathInt32(path, v.elems + 2 * i * Int32Size)
SubscriptToSameSlot(path, v, i) ==
    PathInt32(path, v.elems + 2 * i * Int32Size)

SubscriptTo(path, v, i) ==
    PathInt32(path, v.elems + 2 * i * Int32Size + Int32Size)

\* The range flag returned by jspGetArraySubscript()
jspGetArraySubscript(path, v, i) == SubscriptTo(path, v, i) # 0

jspGetSequenceElement(path, v, i) ==
    jspInitByBuffer(path, v.base, PathInt32(path, v.elems + i * Int32Size))

jspGetObjectKey(path, v, i) ==
    jspInitByBuffer(path, v.base, PathInt32(path, v.elems + 2 * i * Int32Size))

jspGetObjectVal(path, v, i) ==
    jspInitByBuffer(path, v.base,
                    PathInt32(path, v.elems + 2 * i * Int32Size + Int32Size))


(***************************************************************************)
(* Text.  A text is a sequence of one-character strings; Chr gives the     *)
(* character of a payload byte (the alphabet of the explored payloads).    *)
(***************************************************************************)
Chr(b) ==
    CASE b = 34 -> "\""
      [] b = 92 -> "\\"
      [] b = 72 -> "H"
      [] b = 84 -> "T"
      [] b = 90 -> "Z"
      [] b = 97 -> "a"
      [] b = 98 -> "b"
      [] b = 99 -> "c"
      [] OTHER -> "?"

Digit(d) == CASE d = 0 -> "0" [] d = 1 -> "1" [] d = 2 -> "2" [] d = 3 -> "3"
              [] d = 4 -> "4" [] d = 5 -> "5" [] d = 6 -> "6" [] d = 7 -> "7"
              [] d = 8 -> "8" [] d = 9 -> "9"

\* "%u" / numeric_out() of a non-negative integer
RECURSIVE Decimal(_)
Decimal(n) ==
    IF n < 10 THEN << Digit(n) >> ELSE Decimal(n \div 10) \o << Digit(n % 10) >>

\* escape_json(): the string in double quotes, with " and \ escaped
RECURSIVE EscapeChars(_)
EscapeChars(bytes) ==
    IF bytes = << >> THEN << >>
    ELSE (IF bytes[1] \in {34, 92} THEN << "\\", Chr(bytes[1]) >>
          ELSE << Chr(bytes[1]) >>) \o EscapeChars(Tail(bytes))

escape_json(bytes) == << "\"" >> \o EscapeChars(bytes) \o << "\"" >>

jspOperationName(type) ==
    CASE type = "jpiAnd" -> << "&", "&" >>
      [] type = "jpiOr" -> << "|", "|" >>
      [] type = "jpiEqual" -> << "=", "=" >>
      [] type = "jpiNotEqual" -> << "!", "=" >>
      [] type = "jpiLess" -> << "<" >>
      [] type = "jpiGreater" -> << ">" >>
      [] type = "jpiLessOrEqual" -> << "<", "=" >>
      [] type = "jpiGreaterOrEqual" -> << ">", "=" >>
      [] type = "jpiAdd" -> << "+" >>
      [] type = "jpiSub" -> << "-" >>
      [] type = "jpiMul" -> << "*" >>
      [] type = "jpiDiv" -> << "/" >>
      [] type = "jpiMod" -> << "%" >>
      [] type = "jpiStartsWith" -> << "s", "t", "a", "r", "t", "s", " ", "w", "i", "t", "h" >>

operationPriority(op) ==
    CASE op = "jpiSequence" -> -1
      [] op = "jpiOr" -> 0
      [] op = "jpiAnd" -> 1
      [] op \in {"jpiEqual", "jpiNotEqual", "jpiLess", "jpiGreater",
                 "jpiLessOrEqual", "jpiGreaterOrEqual", "jpiStartsWith"} -> 2
      [] op \in {"jpiAdd", "jpiSub"} -> 3
      [] op \in {"jpiMul", "jpiDiv", "jpiMod"} -> 4
      [] op \in {"jpiPlus", "jpiMinus"} -> 5
      [] OTHER -> 6

\* The printBracketes argument passed for an operand of the operator v.
operandBracketsStrict(elemType, vType) ==
    operationPriority(elemType) < operationPriority(vType)

operandBrackets(elemType, vType) ==
    operationPriority(elemType) <= operationPriority(vType)

\* The letters of the like_regex flags: JSP_REGEX_ICASE 0x01, DOTALL 0x02,
\* MLINE 0x04, WSPACE 0x08, QUOTE 0x10.
RegexFlagChars(flags) ==
    (IF flags % 2 = 1 THEN << "i" >> ELSE << >>)
        \o (IF (flags \div 2) % 2 = 1 THEN << "s" >> ELSE << >>)
        \o (IF (flags \div 4) % 2 = 1 THEN << "m" >> ELSE << >>)
        \o (IF (flags \div 8) % 2 = 1 THEN << "x" >> ELSE << >>)
        \o (IF (flags \div 16) % 2 = 1 THEN << "q" >> ELSE << >>)

(***************************************************************************)
(* Printer.  buf is the output StringInfo: [text, err].                    *)
(***************************************************************************)
app(buf, text) ==
    IF buf.err # OK THEN buf ELSE [buf EXCEPT !.text = @ \o text]

appIf(buf, cond, text) == IF cond THEN app(buf, text) ELSE buf

fail(buf, e) == IF buf.err # OK THEN buf ELSE [buf EXCEPT !.err = e]

\* case jpiAny
printAny(buf, v, inKey) ==
    LET b0 == appIf(buf, inKey, << "." >>)
    IN  IF v.first = 0 /\ v.last = PG_UINT32_MAX THEN app(b0, << "*", "*" >>)
        ELSE IF v.first = v.last
        THEN IF v.first = PG_UINT32_MAX THEN app(b0, << "*", "*", "{", "l", "a", "s", "t", "}" >>)
             ELSE app(b0, << "*", "*", "{" >> \o Decimal(v.first) \o << "}" >>)
        ELSE IF v.first = PG_UINT32_MAX
        THEN app(b0, << "*", "*", "{", "l", "a", "s", "t", " ", "t", "o", " " >> \o Decimal(v.last) \o << "}" >>)
        ELSE IF v.last = PG_UINT32_MAX
        THEN app(b0, << "*", "*", "{" >> \o Decimal(v.first)
                         \o << " ", "t", "o", " ", "l", "a", "s", "t", "}" >>)
        ELSE app(b0, << "*", "*", "{" >> \o Decimal(v.first)
                         \o << " ", "t", "o", " " >> \o Decimal(v.last) \o << "}" >>)

printKeyNoDot(buf, name, inKey) == app(buf, escape_json(name))

\* case jpiKey: if (inKey) appendStringInfoChar(buf, '.'); escape_json(...)
printKey(buf, name, inKey) ==
    app(appIf(buf, inKey, << "." >>), escape_json(name))

RECURSIVE printJsonPathItem(_, _, _, _, _, _)
RECURSIVE printSubscripts(_, _, _, _, _)
RECURSIVE printSequence(_, _, _, _, _)
RECURSIVE printObject(_, _, _, _, _)

\* case jpiIndexArray: the loop from subscript i on
printSubscripts(path, buf, v, i, depth) ==
    IF i >= v.nelems THEN buf
    ELSE
        LET from == jspInitByBuffer(path, v.base, SubscriptFrom(path, v, i))
            range == jspGetArraySubscript(path, v, i)
            b1 == appIf(buf, i # 0, << "," >>)
            b2 == printJsonPathItem(path, b1, from, FALSE,
                                    from.type = "jpiSequence", depth)
            b3 == IF range
                  THEN LET to == jspInitByBuffer(path, v.base,
                                                 SubscriptTo(path, v, i))
                       IN  printJsonPathItem(path, app(b2, << " ", "t", "o", " " >>),
                                             to, FALSE,
                                             to.type = "jpiSequence", depth)
                  ELSE b2
        IN  printSubscripts(path, b3, v, i + 1, depth)

\* case jpiSequence: the loop from element i on
printSequence(path, buf, v, i, depth) ==
    IF i >= v.nelems THEN buf
    ELSE
        LET elem == jspGetSequenceElement(path, v, i)
            b1 == appIf(buf, i # 0, << ",", " " >>)
        IN  printSequence(path,
                printJsonPathItem(path, b1, elem, FALSE,
                                  elem.type = "jpiSequence", depth),
                v, i + 1, depth)

\* case jpiObject: the loop from field i on
printObject(path, buf, v, i, depth) ==
    IF i >= v.nelems THEN buf
    ELSE
        LET key == jspGetObjectKey(path, v, i)
            val == jspGetObjectVal(path, v, i)
            b1 == appIf(buf, i # 0, << ",", " " >>)
            b2 == printJsonPathItem(path, b1, key, FALSE, FALSE, depth)
            b3 == printJsonPathItem(path, app(b2, << ":", " " >>), val, FALSE,
                                    val.type = "jpiSequence", depth)
        IN  printObject(path, b3, v, i + 1, depth)

\* switch (v->type): the text of the item itself, without its successors
printItemBody(path, buf, v, inKey, printBracketes, depth) ==
    LET lb == appIf(buf, printBracketes, << "(" >>)
    IN  CASE v.type = "jpiNull" -> app(buf, << "n", "u", "l", "l" >>)
          [] v.type = "jpiKey" -> printKey(buf, jspGetString(path, v), inKey)
          [] v.type = "jpiString" -> app(buf, escape_json(jspGetString(path, v)))
          [] v.type = "jpiVariable" ->
                app(buf, << "$" >> \o escape_json(jspGetString(path, v)))
          [] v.type = "jpiNumeric" ->
                appIf(app(appIf(buf, jspHasNext(v), << "(" >>),
                          Decimal(jspGetNumeric(path, v))),
                      jspHasNext(v), << ")" >>)
          [] v.type = "jpiBool" ->
                IF jspGetBool(path, v) THEN app(buf, << "t", "r", "u", "e" >>)
                ELSE app(buf, << "f", "a", "l", "s", "e" >>)
          [] v.type \in BinaryTypes ->
                LET l == jspGetLeftArg(path, v)
                    r == jspGetRightArg(path, v)
                    b1 == printJsonPathItem(path, lb, l, FALSE,
                              operandBrackets(l.type, v.type), depth)
                    b2 == app(b1, << " " >> \o jspOperationName(v.type)
                                            \o << " " >>)
                    b3 == printJsonPathItem(path, b2, r, FALSE,
                              operandBrackets(r.type, v.type), depth)
                IN  appIf(b3, printBracketes, << ")" >>)
          [] v.type = "jpiLikeRegex" ->
                LET e == jspInitByBuffer(path, v.base, v.expr)
                    b1 == printJsonPathItem(path, lb, e, FALSE,
                              operandBrackets(e.type, v.type), depth)
                    b2 == app(b1, << " ", "l", "i", "k", "e", "_", "r", "e", "g", "e", "x", " " >>
                                  \o escape_json(CString(path, v.pattern)))
                    b3 == appIf(b2, v.flags # 0,
                                << " ", "f", "l", "a", "g", " ", "\"" >> \o RegexFlagChars(v.flags)
                                    \o << "\"" >>)
                IN  appIf(b3, printBracketes, << ")" >>)
          [] v.type \in {"jpiPlus", "jpiMinus"} ->
                LET e == jspGetArg(path, v)
                    b1 == app(lb, IF v.type = "jpiPlus" THEN << "+" >>
                                  ELSE << "-" >>)
                    b2 == printJsonPathItem(path, b1, e, FALSE,
                              operandBrackets(e.type, v.type), depth)
                IN  appIf(b2, printBracketes, << ")" >>)
          [] v.type = "jpiFilter" ->
                app(printJsonPathItem(path, app(buf, << "?", "(" >>),
                                      jspGetArg(path, v), FALSE, FALSE, depth),
                    << ")" >>)
          [] v.type = "jpiNot" ->
                app(printJsonPathItem(path, app(buf, << "!", "(" >>),
                                      jspGetArg(path, v), FALSE, FALSE, depth),
                    << ")" >>)
          [] v.type = "jpiIsUnknown" ->
                app(printJsonPathItem(path, app(buf, << "(" >>),
                                      jspGetArg(path, v), FALSE, FALSE, depth),
                    << ")", " ", "i", "s", " ", "u", "n", "k", "n", "o", "w", "n" >>)
          [] v.type = "jpiExists" ->
                app(printJsonPathItem(path, app(buf, << "e", "x", "i", "s", "t", "s", " ", "(" >>),
                                      jspGetArg(path, v), FALSE, FALSE, depth),
                    << ")" >>)
          [] v.type = "jpiCurrent" -> app(buf, << "@" >>)
          [] v.type = "jpiRoot" -> app(buf, << "$" >>)
          [] v.type = "jpiLast" -> app(buf, << "l", "a", "s", "t" >>)
          [] v.type = "jpiAnyArray" -> app(buf, << "[", "*", "]" >>)
          [] v.type = "jpiAnyKey" ->
                app(appIf(buf, inKey, << "." >>), << "*" >>)
          [] v.type = "jpiIndexArray" ->
                app(printSubscripts(path, app(buf, << "[" >>), v, 0, depth),
                    << "]" >>)
          [] v.type = "jpiAny" -> printAny(buf, v, inKey)
          [] v.type = "jpiType" -> app(buf, << ".", "t", "y", "p", "e", "(", ")" >>)
          [] v.type = "jpiSize" -> app(buf, << ".", "s", "i", "z", "e", "(", ")" >>)
          [] v.type = "jpiAbs" -> app(buf, << ".", "a", "b", "s", "(", ")" >>)
          [] v.type = "jpiFloor" -> app(buf, << ".", "f", "l", "o", "o", "r", "(", ")" >>)
          [] v.type = "jpiCeiling" -> app(buf, << ".", "c", "e", "i", "l", "i", "n", "g", "(", ")" >>)
          [] v.type = "jpiDouble" -> app(buf, << ".", "d", "o", "u", "b", "l", "e", "(", ")" >>)
          [] v.type = "jpiKeyValue" -> app(buf, << ".", "k", "e", "y", "v", "a", "l", "u", "e", "(", ")" >>)
          [] v.type = "jpiDatetime" ->
                LET b1 == app(buf, << ".", "d", "a", "t", "e", "t", "i", "m", "e", "(" >>)
                    b2 == IF v.arg # 0
                          THEN printJsonPathItem(path, b1, jspGetArg(path, v),
                                                 FALSE, FALSE, depth)
                          ELSE b1
                IN  app(b2, << ")" >>)
          [] v.type = "jpiSequence" ->
                LET br == printBracketes \/ jspHasNext(v)
                    b1 == printSequence(path, appIf(buf, br, << "(" >>), v, 0,
                                        depth)
                IN  appIf(b1, br, << ")" >>)
          [] v.type = "jpiArray" ->
                LET b1 == app(buf, << "[" >>)
                    b2 == IF v.arg # 0
                          THEN printJsonPathItem(path, b1, jspGetArg(path, v),
                                                 FALSE, FALSE, depth)
                          ELSE b1
                IN  app(b2, << "]" >>)
          [] v.type = "jpiObject" ->
                app(printObject(path, app(buf, << "{" >>), v, 0, depth),
                    << "}" >>)
          [] OTHER -> fail(buf, ERR_UNRECOGNIZED)

\* Appends the text of the item at v, its children and its successors.
\* depth counts the active calls.
printJsonPathItem(path, buf, v, inKey, printBracketes, depth) ==
    IF buf.err # OK THEN buf
    ELSE IF check_stack_depth(depth + 1) THEN fail(buf, ERR_STACK_DEPTH)
    ELSE
        LET b1 == printItemBody(path, buf, v, inKey, printBracketes, depth + 1)
        IN  IF b1.err = OK /\ jspHasNext(v)
            THEN printJsonPathItem(path, b1, jspGetNext(path, v), TRUE, TRUE,
                                   depth + 1)
            ELSE b1


(***************************************************************************)
(* Mutability analysis.  cxt is the JsonPathMutableContext: vars (the      *)
(* varnames / varexprs lists as a sequence of [name, type]), current, lax, *)
(* mutable.  The walker returns [status, cxt].                             *)
(***************************************************************************)
jpdsNonDateTime == "jpdsNonDateTime"
jpdsUnknownDateTime == "jpdsUnknownDateTime"
jpdsDateTimeZoned == "jpdsDateTimeZoned"
jpdsDateTimeNonZoned == "jpdsDateTimeNonZoned"

JsonPathDatatypeStatus ==
    {jpdsNonDateTime, jpdsUnknownDateTime, jpdsDateTimeZoned,
     jpdsDateTimeNonZoned}

\* strncmp(a, b, n) = 0 for NUL-terminated a and b
RECURSIVE StrncmpEqual(_, _, _)
StrncmpEqual(a, b, n) ==
    IF n = 0 THEN TRUE
    ELSE IF a = << >> \/ b = << >> THEN a = b
    ELSE a[1] = b[1] /\ StrncmpEqual(Tail(a), Tail(b), n - 1)

\* switch (exprType(varexpr))
VariableTypeStatus(oid) ==
    CASE oid \in {"DATEOID", "TIMEOID", "TIMESTAMPOID"} -> jpdsDateTimeNonZoned
      [] oid \in {"TIMETZOID", "TIMESTAMPTZOID"} -> jpdsDateTimeZoned
      [] OTHER -> jpdsNonDateTime

\* forboth(lc1, cxt->varnames, lc2, cxt->varexprs) from entry i on
RECURSIVE VariableStatus(_, _, _, _)
VariableStatus(vars, name, i, status) ==
    IF i > Len(vars) THEN status
    ELSE IF ~StrncmpEqual(vars[i].name, name, Len(name))
    THEN VariableStatus(vars, name, i + 1, status)
    ELSE VariableTypeStatus(vars[i].type)

\* datetime_format_flags(template) & DCH_ZONED: the template has a time-zone
\* pattern (TZ...).
RECURSIVE HasZonePattern(_)
HasZonePattern(template) ==
    IF Len(template) < 2 THEN FALSE
    ELSE (template[1] = 84 /\ template[2] = 90)
            \/ HasZonePattern(Tail(template))

comparisonMutableOnlyDifferent(leftStatus, rightStatus) ==
    leftStatus # jpdsNonDateTime /\ rightStatus # jpdsNonDateTime
        /\ leftStatus # rightStatus

\* The condition under which a comparison sets cxt->mutable.
comparisonMutable(leftStatus, rightStatus) ==
    leftStatus # jpdsNonDateTime /\ rightStatus # jpdsNonDateTime
        /\ (leftStatus = jpdsUnknownDateTime
                \/ rightStatus = jpdsUnknownDateTime
                \/ leftStatus # rightStatus)

arrayStepStatusLax(isLax, status) == status

\* case jpiIndexArray, jpiAnyArray: if (!cxt->lax) status = jpdsNonDateTime;
arrayStepStatus(isLax, status) ==
    IF ~isLax THEN jpdsNonDateTime ELSE status

\* case jpiAny: if (jpi->content.anybounds.first > 0) status = ...; the
\* bound is a uint32, so every value but 0 is > 0.
anyStepStatus(first, status) ==
    IF first # 0 THEN jpdsNonDateTime ELSE status

accessorStepStatusKept(status) == status

\* literals, accessors, special items, item methods:
\* status = jpdsNonDateTime;
accessorStepStatus(status) == jpdsNonDateTime

restoredCurrentKept(prevStatus, current) == current

\* case jpiFilter: cxt->current = prevStatus;
restoredCurrent(prevStatus, current) == prevStatus

RECURSIVE jspIsMutableWalkerFrom(_, _, _, _, _)
RECURSIVE walkSubscripts(_, _, _, _, _)
RECURSIVE jspIsMutableWalker(_, _, _, _)

\* The stack the process has: StackMargin frames beyond the depth that
\* check_stack_depth() accepts.  A call deeper than that ends the process.
StackLimit == MaxStackDepth + StackMargin

\* jspIsMutableWalker(): JsonPathDatatypeStatus status = jpdsNonDateTime.
\* The function makes no check_stack_depth() call: each call takes a frame
\* (depth counts the frames in use), and only the end of the stack stops it.
jspIsMutableWalker(path, jpi, cxt, depth) ==
    IF depth + 1 > StackLimit
    THEN [status |-> jpdsNonDateTime, cxt |-> [cxt EXCEPT !.crashed = TRUE]]
    ELSE jspIsMutableWalkerFrom(
             path, jpi,
             [cxt EXCEPT !.deepest = IF depth + 1 > @ THEN depth + 1 ELSE @],
             jpdsNonDateTime, depth + 1)

\* case jpiIndexArray: the loop from subscript i on; returns the context
walkSubscripts(path, jpi, cxt, i, depth) ==
    IF i >= jpi.nelems THEN cxt
    ELSE
        LET from == jspInitByBuffer(path, jpi.base, SubscriptFrom(path, jpi, i))
            c1 == IF jspGetArraySubscript(path, jpi, i)
                  THEN jspIsMutableWalker(path,
                           jspInitByBuffer(path, jpi.base,
                                           SubscriptTo(path, jpi, i)),
                           cxt, depth).cxt
                  ELSE cxt
        IN  walkSubscripts(path, jpi,
                           jspIsMutableWalker(path, from, c1, depth).cxt,
                           i + 1, depth)

\* switch (jpi->type): [status, cxt] after the item jpi
walkItem(path, jpi, cxt, status, depth) ==
    LET same == [status |-> status, cxt |-> cxt]
    IN  CASE jpi.type = "jpiRoot" -> same
          [] jpi.type = "jpiCurrent" -> [status |-> cxt.current, cxt |-> cxt]
          [] jpi.type = "jpiFilter" ->
                LET prevStatus == cxt.current
                    r == jspIsMutableWalker(path, jspGetArg(path, jpi),
                             [cxt EXCEPT !.current = status], depth)
                IN  [status |-> status,
                     cxt |-> [r.cxt EXCEPT
                                 !.current = restoredCurrent(prevStatus, @)]]
          [] jpi.type = "jpiVariable" ->
                [status |-> VariableStatus(cxt.vars, jspGetString(path, jpi),
                                           1, status),
                 cxt |-> cxt]
          [] jpi.type \in {"jpiEqual", "jpiNotEqual", "jpiLess", "jpiGreater",
                           "jpiLessOrEqual", "jpiGreaterOrEqual"} ->
                LET l == jspIsMutableWalker(path, jspGetLeftArg(path, jpi), cxt,
                                            depth)
                    r == jspIsMutableWalker(path, jspGetRightArg(path, jpi),
                                            l.cxt, depth)
                IN  [status |-> status,
                     cxt |-> IF comparisonMutable(l.status, r.status)
                             THEN [r.cxt EXCEPT !.mutable = TRUE]
                             ELSE r.cxt]
          [] jpi.type \in {"jpiNot", "jpiIsUnknown", "jpiExists", "jpiPlus",
                           "jpiMinus"} ->
                [status |-> status,
                 cxt |-> jspIsMutableWalker(path, jspGetArg(path, jpi),
                                            cxt, depth).cxt]
          [] jpi.type \in {"jpiAnd", "jpiOr", "jpiAdd", "jpiSub", "jpiMul",
                           "jpiDiv", "jpiMod", "jpiStartsWith"} ->
                LET l == jspIsMutableWalker(path, jspGetLeftArg(path, jpi), cxt,
                                            depth)
                IN  [status |-> status,
                     cxt |-> jspIsMutableWalker(path,
                                 jspGetRightArg(path, jpi), l.cxt, depth).cxt]
          [] jpi.type = "jpiIndexArray" ->
                [status |-> arrayStepStatus(cxt.lax, status),
                 cxt |-> walkSubscripts(path, jpi, cxt, 0, depth)]
          [] jpi.type = "jpiAnyArray" ->
                [status |-> arrayStepStatus(cxt.lax, status), cxt |-> cxt]
          [] jpi.type = "jpiAny" ->
                [status |-> anyStepStatus(jpi.first, status), cxt |-> cxt]
          [] jpi.type = "jpiDatetime" ->
                IF jpi.arg # 0
                THEN LET arg == jspGetArg(path, jpi)
                     IN  IF arg.type # "jpiString"
                         THEN [status |-> jpdsNonDateTime, cxt |-> cxt]
                         ELSE IF HasZonePattern(jspGetString(path, arg))
                         THEN [status |-> jpdsDateTimeZoned, cxt |-> cxt]
                         ELSE [status |-> jpdsDateTimeNonZoned, cxt |-> cxt]
                ELSE [status |-> jpdsUnknownDateTime, cxt |-> cxt]
          [] jpi.type = "jpiLikeRegex" ->
                [status |-> status,
                 cxt |-> jspIsMutableWalker(path,
                             jspInitByBuffer(path, jpi.base, jpi.expr),
                             cxt, depth).cxt]
          [] jpi.type \in {"jpiNull", "jpiString", "jpiNumeric", "jpiBool",
                           "jpiKey", "jpiAnyKey", "jpiSubscript", "jpiLast",
                           "jpiType", "jpiSize", "jpiAbs", "jpiFloor",
                           "jpiCeiling", "jpiDouble", "jpiKeyValue"} ->
                [status |-> accessorStepStatus(status), cxt |-> cxt]
          [] OTHER -> same

\* while (!cxt->mutable) { switch ...; if (!jspGetNext(jpi, &next)) break; }
\* Nothing runs once the process has ended.
jspIsMutableWalkerFrom(path, jpi, cxt, status, depth) ==
    IF cxt.mutable \/ cxt.crashed THEN [status |-> status, cxt |-> cxt]
    ELSE
        LET r == walkItem(path, jpi, cxt, status, depth)
        IN  IF ~jspHasNext(jpi) THEN r
            ELSE jspIsMutableWalkerFrom(path, jspGetNext(path, jpi), r.cxt,
                                        r.status, depth)


(***************************************************************************)
(* The parse trees explored (the values of JsonPathParseResult.expr).      *)
(***************************************************************************)
Leaf(type) == Item(type, << >>, 0, 0, << >>, NULL)

\* The payload of n bytes "abcabc..."
StrOf(n) == [i \in 1..n |-> 97 + ((i - 1) % 3)]

StrItem(type, n) == Item(type, StrOf(n), 0, 0, << >>, NULL)

NumItem(n) == Item("jpiNumeric", << >>, n, 0, << >>, NULL)

BoolItem(b) == Item("jpiBool", << >>, IF b THEN 1 ELSE 0, 0, << >>, NULL)

AnyItem(first, last) == Item("jpiAny", << >>, first, last, << >>, NULL)

Binary(type, l, r) == Item(type, << >>, 0, 0, << Ptr(l), Ptr(r) >>, NULL)

Unary(type, a) == Item(type, << >>, 0, 0, << Ptr(a) >>, NULL)

\* .datetime() and [] have no argument
NoArg(type) == Item(type, << >>, 0, 0, << NULL >>, NULL)

LikeRegex(e, pattern, flags) ==
    Item("jpiLikeRegex", pattern, flags, 0, << Ptr(e) >>, NULL)

Kids(type, kids) == Item(type, << >>, 0, 0, kids, NULL)

\* item with `next` linked after the last item of its chain
RECURSIVE Then(_, _)
Then(item, next) ==
    IF item.next = NULL THEN [item EXCEPT !.next = Ptr(next)]
    ELSE [item EXCEPT !.next = Ptr(Then(item.next[1], next))]

\* Items that need a context to be accepted, and a plain one.
Probes ==
    {Leaf("jpiCurrent"), Leaf("jpiLast"), NoArg("jpiArray"),
     Kids("jpiSequence", << Ptr(Leaf("jpiRoot")) >>),
     Kids("jpiObject", << >>), Leaf("jpiRoot")}

\* Items with every payload size
Atoms ==
    {Leaf("jpiCurrent"), Leaf("jpiLast"), NoArg("jpiArray"), Leaf("jpiRoot"),
     Leaf("jpiNull"), Leaf("jpiAnyKey"), Leaf("jpiType"), NoArg("jpiDatetime"),
     NumItem(0), NumItem(1), BoolItem(TRUE), BoolItem(FALSE),
     AnyItem(0, PG_UINT32_MAX), AnyItem(1, 2)}
        \cup {StrItem(t, n) : t \in StringTypes, n \in 0..MaxStrLen}

\* One-hole contexts: the item x in each child or successor position.
Wraps ==
    {"next", "filterArg", "filterNext", "right", "existsArg", "arrayArg",
     "regexExpr", "from", "to", "subscriptNext", "element", "key", "val"}

Wrap(w, x) ==
    CASE w = "next" -> Then(Leaf("jpiRoot"), x)
      [] w = "filterArg" -> Unary("jpiFilter", x)
      [] w = "filterNext" -> Then(Unary("jpiFilter", BoolItem(TRUE)), x)
      [] w = "right" -> Binary("jpiEqual", StrItem("jpiString", 1), x)
      [] w = "existsArg" -> Unary("jpiExists", x)
      [] w = "arrayArg" -> Unary("jpiArray", x)
      [] w = "regexExpr" -> LikeRegex(x, StrOf(1), 1)
      [] w = "from" -> Kids("jpiIndexArray", << Ptr(x), NULL >>)
      [] w = "to" -> Kids("jpiIndexArray", << Ptr(NumItem(0)), Ptr(x) >>)
      [] w = "subscriptNext" ->
            Then(Kids("jpiIndexArray", << Ptr(NumItem(1)), NULL >>), x)
      [] w = "element" ->
            Kids("jpiSequence", << Ptr(BoolItem(FALSE)), Ptr(x) >>)
      [] w = "key" -> Kids("jpiObject", << Ptr(x), Ptr(NumItem(1)) >>)
      [] w = "val" ->
            Kids("jpiObject", << Ptr(StrItem("jpiString", 2)), Ptr(x) >>)

\* The probes under at most n contexts
RECURSIVE Wrapped(_)
Wrapped(n) ==
    IF n = 0 THEN Probes
    ELSE Probes \cup {Wrap(w, x) : w \in Wraps, x \in Wrapped(n - 1)}

\* Two items side by side: the order of their encoding and the layout of
\* the second after the payload of the first.
Pairs ==
    UNION {{Binary("jpiMul", x, y), Then(x, y),
            Kids("jpiSequence", << Ptr(x), Ptr(y) >>),
            Kids("jpiIndexArray", << Ptr(x), Ptr(y) >>),
            Kids("jpiObject", << Ptr(x), Ptr(y) >>),
            Unary("jpiFilter", Binary("jpiAnd", x, y))} :
           x \in Atoms, y \in Atoms}



(***************************************************************************)
(* Operator trees for the printer.                                         *)
(***************************************************************************)
OperatorTypes == BinaryTypes \cup {"jpiPlus", "jpiMinus", "jpiLikeRegex"}

\* $.a
PathA == Then(Leaf("jpiRoot"), StrItem("jpiKey", 1))

\* $.ab
PathB == Then(Leaf("jpiRoot"), StrItem("jpiKey", 2))

\* The operator `type` over the operands x and y (y for a binary one)
MkOp(type, x, y) ==
    IF type \in BinaryTypes THEN Binary(type, x, y)
    ELSE IF type = "jpiLikeRegex" THEN LikeRegex(x, StrOf(1), 0)
    ELSE Unary(type, x)

\* Operands without a successor: every operator, a sequence, and items
\* that are no operators
PlainOperands ==
    {MkOp(t, PathA, NumItem(2)) : t \in OperatorTypes}
        \cup {Kids("jpiSequence", << Ptr(PathA), Ptr(NumItem(2)) >>), PathA,
              NumItem(2), Unary("jpiExists", PathA), StrItem("jpiString", 1)}

\* ... and the same followed by .type()
Operands == PlainOperands \cup {Then(x, Leaf("jpiType")) : x \in PlainOperands}

OperandTrees ==
    {MkOp(t, x, PathB) : t \in OperatorTypes, x \in Operands}
        \cup {Binary(t, PathB, x) : t \in BinaryTypes, x \in Operands}

\* Operators followed by .type()
ChainedOperators ==
    {Then(MkOp(t, PathA, NumItem(2)), Leaf("jpiType")) :
        t \in BinaryTypes \cup {"jpiPlus", "jpiMinus"}}

\* The places an item can stand in, other than as an operand
Places ==
    {"top", "filter", "not", "exists", "isUnknown", "datetime", "array",
     "element", "subscript"}

Place(w, x) ==
    CASE w = "top" -> x
      [] w = "filter" -> Then(Leaf("jpiRoot"), Unary("jpiFilter", x))
      [] w = "not" -> Unary("jpiNot", x)
      [] w = "exists" -> Unary("jpiExists", x)
      [] w = "isUnknown" -> Unary("jpiIsUnknown", x)
      [] w = "datetime" -> Then(Leaf("jpiRoot"), Unary("jpiDatetime", x))
      [] w = "array" -> Unary("jpiArray", x)
      [] w = "element" -> Kids("jpiSequence", << Ptr(NumItem(1)), Ptr(x) >>)
      [] w = "subscript" ->
            Then(Leaf("jpiRoot"), Kids("jpiIndexArray", << Ptr(x), NULL >>))

PlacedTrees == {Place(w, x) : w \in Places, x \in ChainedOperators}

\* $.a + $.ab * 2   and   ($.a + $.ab) * 2
ExampleSumProduct ==
    Binary("jpiAdd", PathA, Binary("jpiMul", PathB, NumItem(2)))

ExampleProductOfSum ==
    Binary("jpiMul", Binary("jpiAdd", PathA, PathB), NumItem(2))

\* $.a[*].type()
ExampleChain ==
    Then(PathA, Then(Leaf("jpiAnyArray"), Leaf("jpiType")))

\* $[1 to 5, 7]
ExampleSubscripts ==
    Then(Leaf("jpiRoot"),
         Kids("jpiIndexArray",
              << Ptr(NumItem(1)), Ptr(NumItem(5)), Ptr(NumItem(7)), NULL >>))

\* Subscript lists, sequences and objects of up to MaxElems entries
RECURSIVE Lists(_, _)
Lists(S, n) ==
    IF n = 0 THEN {<< >>}
    ELSE {<< >>} \cup {<< x >> \o l : x \in S, l \in Lists(S, n - 1)}

ListTrees ==
    {Then(Leaf("jpiRoot"), Kids(t, l)) :
        t \in {"jpiIndexArray", "jpiObject"},
        l \in {ll \in Lists({Ptr(NumItem(1)), Ptr(PathA)}, 2 * MaxElems) :
                  Len(ll) % 2 = 0 /\ Len(ll) > 0}}
        \cup {Kids("jpiSequence", l) :
                 l \in Lists({Ptr(NumItem(1)), Ptr(PathA)}, MaxElems) \ {<< >>}}

(***************************************************************************)
(* The variable lists (varnames, varexprs) given to jspIsMutable().        *)
(***************************************************************************)
NoVars == << >>

VarLists ==
    {NoVars,
     << [name |-> StrOf(1), type |-> "TIMESTAMPTZOID"],
        [name |-> StrOf(2), type |-> "DATEOID"] >>,
     << [name |-> StrOf(2), type |-> "TIMETZOID"],
        [name |-> StrOf(1), type |-> "INT4OID"] >>}

\* The variables the comparisons are analysed with: $a is timestamptz, $b is
\* date, $c is int4; no name is the beginning of another.
DatetimeVars ==
    << [name |-> << 97 >>, type |-> "TIMESTAMPTZOID"],
       [name |-> << 98 >>, type |-> "DATEOID"],
       [name |-> << 99 >>, type |-> "INT4OID"] >>

(***************************************************************************)
(* Comparisons for the mutability analysis.                                *)
(***************************************************************************)
Variable(name) == Item("jpiVariable", name, 0, 0, << >>, NULL)

\* $.datetime("HH") for the template << 72, 72 >>, $.datetime("TZ") for
\* << 84, 90 >>
DatetimeOf(template) ==
    Then(Leaf("jpiRoot"),
         Unary("jpiDatetime", Item("jpiString", template, 0, 0, << >>, NULL)))

\* $.datetime()
DatetimeUnknown == Then(Leaf("jpiRoot"), NoArg("jpiDatetime"))

ComparisonTypes ==
    {"jpiEqual", "jpiNotEqual", "jpiLess", "jpiGreater", "jpiLessOrEqual",
     "jpiGreaterOrEqual"}

ComparisonOperands ==
    {DatetimeUnknown, DatetimeOf(<< 72, 72 >>), DatetimeOf(<< 84, 90 >>),
     Then(DatetimeUnknown, Leaf("jpiAnyArray")),
     Variable(<< 97 >>), Variable(<< 98 >>), Variable(<< 99 >>),
     Variable(<< 100 >>), NumItem(2), PathA,
     Then(DatetimeOf(<< 84, 90 >>), Leaf("jpiType"))}

\* The subjects a filter is applied to
FilterSubjects == {DatetimeUnknown, DatetimeOf(<< 84, 90 >>), PathA}

\* l cmp r at the top, and subject ? (@ cmp r)
ComparisonTrees ==
    {Binary(t, l, r) :
        t \in ComparisonTypes, l \in ComparisonOperands,
        r \in ComparisonOperands}
        \cup {Then(s, Unary("jpiFilter", Binary(t, Leaf("jpiCurrent"), r))) :
                 s \in FilterSubjects, t \in ComparisonTypes,
                 r \in ComparisonOperands}

(***************************************************************************)
(* Variable references for the mutability analysis.                        *)
(***************************************************************************)
\* a, ab, abc: each name is the beginning of the next
VariableNames == {StrOf(n) : n \in 1..(MaxStrLen + 1)}

DeclaredVariables ==
    {[name |-> n, type |-> t] :
        n \in VariableNames, t \in {"TIMESTAMPTZOID", "DATEOID", "INT4OID"}}

\* (varnames, varexprs) of up to two entries
DeclaredLists ==
    {NoVars} \cup {<< d >> : d \in DeclaredVariables}
        \cup {<< d, e >> : d \in DeclaredVariables, e \in DeclaredVariables}

\* $name == probe, the probe of each datetime status
VariableTrees ==
    {Binary("jpiEqual", Variable(n), p) :
        n \in VariableNames,
        p \in {DatetimeUnknown, DatetimeOf(<< 72, 72 >>),
               DatetimeOf(<< 84, 90 >>)}}

\* $.datetime() < $.datetime("TZ"): a comparison the analysis flags
FlaggedComparison ==
    Binary("jpiLess", DatetimeUnknown, DatetimeOf(<< 84, 90 >>))

\* The flagged comparison in every child or successor position, one or two
\* items below the top
NestedComparisonTrees ==
    {Wrap(w, FlaggedComparison) : w \in Wraps}
        \cup {Wrap(w, Wrap(u, FlaggedComparison)) : w \in Wraps, u \in Wraps}

\* One-argument items without their argument: alone, after $, as an operand
AbsentArgTrees ==
    UNION {{NoArg(t), Then(Leaf("jpiRoot"), NoArg(t)),
            Binary("jpiAnd", NoArg(t), BoolItem(TRUE))} : t \in ArgTypes}

\* The steps whose effect on the status of a chain is observed
AccessorSteps ==
    {StrItem("jpiKey", 1)}
        \cup {Leaf(t) : t \in {"jpiAnyKey", "jpiType", "jpiSize", "jpiAbs",
                               "jpiFloor", "jpiCeiling", "jpiDouble",
                               "jpiKeyValue"}}

ArraySteps ==
    {Leaf("jpiAnyArray"), Kids("jpiIndexArray", << Ptr(NumItem(1)), NULL >>)}

DescentSteps ==
    {AnyItem(0, PG_UINT32_MAX), AnyItem(1, 2),
     AnyItem(PG_UINT32_MAX, PG_UINT32_MAX)}

ChainSteps ==
    AccessorSteps \cup ArraySteps \cup DescentSteps
        \cup {Unary("jpiFilter", BoolItem(TRUE))}

\* base.step == $.datetime(): flagged exactly when the chain base.step
\* still has a datetime status; every base has one ($a is timestamptz)
ChainBases ==
    {DatetimeUnknown, DatetimeOf(<< 72, 72 >>), DatetimeOf(<< 84, 90 >>),
     Variable(<< 97 >>)}

ChainTrees ==
    {Binary("jpiEqual", Then(b, s), DatetimeUnknown) :
        b \in ChainBases, s \in ChainSteps}

\* What @ is compared with in a filter
FilterProbes ==
    {DatetimeUnknown, DatetimeOf(<< 72, 72 >>), DatetimeOf(<< 84, 90 >>),
     NumItem(2)}

\* s ? (exists (t ? (@ == p)) && @ == q): a filter in the predicate of a
\* filter, the subject t of the inner one being a chain of its own or @, and
\* a use of @ in the outer predicate after the inner filter was left
NestedFilterTrees ==
    {Then(s, Unary("jpiFilter",
                   Binary("jpiAnd",
                          Unary("jpiExists",
                                Then(t, Unary("jpiFilter",
                                              Binary("jpiEqual",
                                                     Leaf("jpiCurrent"), p)))),
                          Binary("jpiEqual", Leaf("jpiCurrent"), q)))) :
        s \in FilterSubjects, t \in FilterSubjects \cup {Leaf("jpiCurrent")},
        p \in FilterProbes, q \in FilterProbes}

(***************************************************************************)
(* State.                                                                  *)
(*   expr, lax, ext  the JsonPathParseResult given to the encoder          *)
(*   varlist         the variables the path is analysed with               *)
(*   pc              "parsed", then "encoded" or "failed"                  *)
(*   buf             the StringInfo of the encode; once encoded, the       *)
(*                   JsonPath value (length word, header, data)            *)
(*   err             the error raised by the encode, or OK                 *)
(*   nodes, slots    the item positions and the offset-field offsets the   *)
(*                   encoder wrote                                         *)
(*   out             [done, text, err]: the result of jsonPathToCstring()  *)
(*   mut             [done, mutable, err, deepest]: the result of          *)
(*                   jspIsMutable(), or the end of the process, and the    *)
(*                   deepest stack depth the walk stood at                 *)
(***************************************************************************)
VARIABLES expr, lax, ext, varlist, pc, buf, err, nodes, slots, out, mut

vars == << expr, lax, ext, varlist, pc, buf, err, nodes, slots, out, mut >>

NoOut == [done |-> FALSE, text |-> << >>, err |-> OK]
NoMut == [done |-> FALSE, mutable |-> FALSE, err |-> OK, deepest |-> 0]

\* res->header = JSONPATH_VERSION | JSONPATH_LAX | JSONPATH_EXT, in memory:
\* the version in the low byte, the two flags in the two top bits.
HeaderBytes(isLax, isExt) ==
    << 1, 0, 0, (IF isLax THEN 128 ELSE 0) + (IF isExt THEN 64 ELSE 0) >>

HeaderIsLax(path) == path[8] >= 128
HeaderIsExt(path) == (path[8] \div 64) % 2 = 1

\* SET_VARSIZE(res, buf.len); res->header = ...
SetHeader(data, isLax, isExt) ==
    Int32Bytes(4 * Len(data)) \o HeaderBytes(isLax, isExt)
        \o SubSeq(data, JSONPATH_HDRSZ + 1, Len(data))

\* An input is << expr, lax, ext, varlist >>.
InitOf(inputs) ==
    /\ \E in \in inputs :
          expr = in[1] /\ lax = in[2] /\ ext = in[3] /\ varlist = in[4]
    /\ pc = "parsed"
    /\ buf = << >>
    /\ err = OK
    /\ nodes = {}
    /\ slots = {}
    /\ out = NoOut
    /\ mut = NoMut

\* The encoding context after flattenJsonPathParseItem() of the whole tree
Encode(item, isExt) ==
    flattenJsonPathParseItem(
        [buf |-> appendStringInfoSpaces(<< >>, JSONPATH_HDRSZ), ext |-> isExt,
         err |-> OK, nodes |-> {}, slots |-> {}, spaces |-> {},
         patched |-> {}],
        item, 0, FALSE, 0).cxt

\* jsonPathFromCstring() after the parse
jsonPathFromCstring ==
    /\ pc = "parsed"
    /\ LET cxt == Encode(expr, ext)
       IN  /\ err' = cxt.err
           /\ nodes' = cxt.nodes
           /\ slots' = cxt.slots
           /\ IF cxt.err = OK
              THEN /\ pc' = "encoded"
                   /\ buf' = SetHeader(cxt.buf, lax, ext)
              ELSE /\ pc' = "failed"
                   /\ buf' = cxt.buf
    /\ UNCHANGED << expr, lax, ext, varlist, out, mut >>

\* The text jsonPathToCstring() returns for the path in `path`.
PathText(path) ==
    LET v == jspInit(path)
        b0 == [text |-> (IF HeaderIsExt(path) THEN << "p", "g", " " >>
                         ELSE << >>)
                        \o (IF ~HeaderIsLax(path) THEN << "s", "t", "r", "i", "c", "t", " " >>
                            ELSE << >>),
               err |-> OK]
    IN  printJsonPathItem(path, b0, v, FALSE, v.type # "jpiSequence", 0)

\* jsonpath_out(): jsonPathToCstring() of the encoded value
jsonPathToCstring ==
    /\ pc = "encoded"
    /\ ~out.done
    /\ LET r == PathText(buf)
       IN  out' = [done |-> TRUE, text |-> r.text, err |-> r.err]
    /\ UNCHANGED << expr, lax, ext, varlist, pc, buf, err, nodes, slots, mut >>

\* The depths of the stack at which jspIsMutable() is called: from the top,
\* and with the stack filled to the depth check_stack_depth() accepts.
CallDepths == {0, MaxStackDepth}

\* The context after jspIsMutable() of the path and variable list, called
\* at stack depth callDepth.
Analysis(path, vl, callDepth) ==
    LET cxt == [vars |-> vl, current |-> jpdsNonDateTime,
                lax |-> HeaderIsLax(path), mutable |-> FALSE,
                deepest |-> callDepth, crashed |-> FALSE]
    IN  jspIsMutableWalker(path, jspInit(path), cxt, callDepth).cxt

\* jspIsMutable(path, varnames, varexprs)
jspIsMutable ==
    /\ pc = "encoded"
    /\ ~mut.done
    /\ \E callDepth \in CallDepths :
          \E cxt \in {Analysis(buf, varlist, callDepth)} :
              mut' = [done |-> TRUE,
                      mutable |-> ~cxt.crashed /\ cxt.mutable,
                      err |-> IF cxt.crashed THEN STACK_OVERFLOW ELSE OK,
                      deepest |-> cxt.deepest]
    /\ UNCHANGED << expr, lax, ext, varlist, pc, buf, err, nodes, slots, out >>

Next == jsonPathFromCstring \/ jsonPathToCstring \/ jspIsMutable

(***************************************************************************)
(* Specifications: the same operations over each family of inputs.         *)
(***************************************************************************)
EncoderInputs ==
    {<< e, TRUE, x, NoVars >> : e \in Wrapped(MaxWrap), x \in BOOLEAN}
        \cup {<< e, TRUE, FALSE, NoVars >> : e \in Pairs}

Init == InitOf(EncoderInputs)

Spec == Init /\ [][Next]_vars

PrinterInputs ==
    {<< e, TRUE, TRUE, NoVars >> : e \in OperandTrees \cup PlacedTrees}
        \cup {<< e, l, x, NoVars >> :
                 e \in {ExampleSumProduct, ExampleProductOfSum, ExampleChain,
                        ExampleSubscripts} \cup ListTrees,
                 l \in BOOLEAN, x \in BOOLEAN}

InitPrinter == InitOf(PrinterInputs)

SpecPrinter == InitPrinter /\ [][Next]_vars

MutableInputs ==
    {<< e, l, FALSE, vl >> :
        e \in ComparisonTrees, l \in BOOLEAN, vl \in {DatetimeVars, NoVars}}

InitMutable == InitOf(MutableInputs)

SpecMutable == InitMutable /\ [][Next]_vars

AnalysisInputs ==
    {<< e, TRUE, FALSE, vl >> : e \in VariableTrees, vl \in DeclaredLists}
        \cup {<< e, TRUE, TRUE, NoVars >> :
                 e \in NestedComparisonTrees \cup AbsentArgTrees}
        \cup {<< e, l, FALSE, DatetimeVars >> :
                 e \in ChainTrees, l \in BOOLEAN}
        \cup {<< e, TRUE, FALSE, NoVars >> : e \in NestedFilterTrees}

InitAnalysis == InitOf(AnalysisInputs)

SpecAnalysis == InitAnalysis /\ [][Next]_vars


(***************************************************************************)
(* What the claims speak of.                                               *)
(***************************************************************************)
Encoded == pc = "encoded"

\* The offset fields stored in the item at position p of the encoded path.
OffsetFields(path, p) ==
    LET v == jspInitByBuffer(path, 0, p)
    IN  {v.nextPos}
            \cup (IF v.type \in BinaryTypes THEN {v.left, v.right} ELSE {})
            \cup (IF v.type \in ArgTypes THEN {v.arg} ELSE {})
            \cup (IF v.type = "jpiLikeRegex" THEN {v.expr} ELSE {})
            \cup (IF v.type \in {"jpiIndexArray", "jpiObject"}
                  THEN {PathInt32(path, v.elems + k * Int32Size) :
                            k \in 0..(2 * v.nelems - 1)}
                  ELSE {})
            \cup (IF v.type = "jpiSequence"
                  THEN {PathInt32(path, v.elems + k * Int32Size) :
                            k \in 0..(v.nelems - 1)}
                  ELSE {})

\* The items of a parse tree in the order the encoder reaches them, each
\* with the nesting level and the inside-subscript flag the claims give it:
\* the level grows by one in a filter's predicate only, the flag is set in
\* the from and to expressions of a subscript only, and both are handed
\* unchanged to every other child and to the successor.
RECURSIVE Reached(_, _, _)
RECURSIVE ReachedKids(_, _, _, _, _)
ReachedKids(item, i, type, level, inside) ==
    IF i > Len(item.kids) THEN << >>
    ELSE (IF item.kids[i] = NULL THEN << >>
          ELSE Reached(item.kids[i][1],
                       IF type = "jpiFilter" THEN level + 1 ELSE level,
                       IF type = "jpiIndexArray" THEN TRUE ELSE inside))
            \o ReachedKids(item, i + 1, type, level, inside)

Reached(item, level, inside) ==
    << [type |-> item.type, level |-> level, inside |-> inside] >>
        \o ReachedKids(item, 1, item.type, level, inside)
        \o (IF item.next = NULL THEN << >>
            ELSE Reached(item.next[1], level, inside))

ExtensionTypes == {"jpiArray", "jpiObject", "jpiSequence"}

\* The error the claims give a reached item, or OK
ItemError(n, isExt) ==
    CASE n.type \in ExtensionTypes /\ ~isExt -> ERR_EXTENSIONS
      [] n.type = "jpiCurrent" /\ n.level <= 0 -> ERR_CURRENT
      [] n.type = "jpiLast" /\ ~n.inside -> ERR_LAST
      [] OTHER -> OK

\* The error of the first reached item that has one, or OK
FirstError(item, isExt) ==
    LET r == Reached(item, 0, FALSE)
        bad == {i \in 1..Len(r) : ItemError(r[i], isExt) # OK}
    IN  IF bad = {} THEN OK
        ELSE ItemError(r[CHOOSE i \in bad : \A j \in bad : i <= j], isExt)

Contains(item, type) ==
    LET r == Reached(item, 0, FALSE)
    IN  \E i \in 1..Len(r) : r[i].type = type

C2_DisplacementsValid ==
    Encoded =>
        \A p \in nodes :
            \A off \in OffsetFields(buf, p) :
                off # 0 =>
                    /\ p + off \in nodes
                    /\ p + off >= 0
                    /\ JSONPATH_HDRSZ + p + off < Len(buf)

C2_Witness ==
    Encoded /\ \E p \in nodes :
                  p # 0 /\ \E off \in OffsetFields(buf, p) : off # 0

(***************************************************************************)
(* C3.  The encode fails with the extensions error exactly when the flag   *)
(* is false and the first item in encoding order that has an error is an   *)
(* array constructor, an object constructor or a sequence.                 *)
(***************************************************************************)
C3_ExtensionsError ==
    pc # "parsed" =>
        /\ (err = ERR_EXTENSIONS <=> FirstError(expr, ext) = ERR_EXTENSIONS)
        /\ (ext => err # ERR_EXTENSIONS)

C3_Witness ==
    /\ pc = "failed"
    /\ err = ERR_EXTENSIONS
    /\ expr.type \notin ExtensionTypes
    /\ Contains(expr, "jpiCurrent")

(***************************************************************************)
(* C4.  The encode rejects @ exactly when @ is the first item with an      *)
(* error and its nesting level is <= 0: @ is accepted anywhere inside a    *)
(* filter predicate and rejected after a top-level filter and inside a     *)
(* top-level exists() or comparison.                                       *)
(***************************************************************************)
C4_CurrentError ==
    pc # "parsed" =>
        /\ (err = ERR_CURRENT <=> FirstError(expr, ext) = ERR_CURRENT)
        /\ (expr = Wrap("filterNext", Leaf("jpiCurrent")) => err = ERR_CURRENT)
        /\ (expr = Wrap("existsArg", Leaf("jpiCurrent")) => err = ERR_CURRENT)
        /\ (expr = Wrap("right", Leaf("jpiCurrent")) => err = ERR_CURRENT)

C4_Witness ==
    /\ Encoded
    /\ expr.type # "jpiFilter"
    /\ Contains(expr, "jpiCurrent")

(***************************************************************************)
(* C5.  The encode rejects `last` exactly when `last` is the first item    *)
(* with an error and it is not inside the from or to expression of a       *)
(* subscript; the successors of the subscript item are not inside it.      *)
(***************************************************************************)
C5_LastError ==
    pc # "parsed" =>
        /\ (err = ERR_LAST <=> FirstError(expr, ext) = ERR_LAST)
        /\ (expr = Wrap("subscriptNext", Leaf("jpiLast")) => err = ERR_LAST)

C5_Witness ==
    /\ Encoded
    /\ expr.type # "jpiIndexArray"
    /\ Contains(expr, "jpiLast")


(***************************************************************************)
(* Texts the printer claims speak of.                                      *)
(***************************************************************************)
Printed == out.done /\ out.err = OK

\* "pg " and "strict " as jsonPathToCstring() puts them before the path
Prefix(isLax, isExt) ==
    (IF isExt THEN << "p", "g", " " >> ELSE << >>)
        \o (IF ~isLax THEN << "s", "t", "r", "i", "c", "t", " " >> ELSE << >>)

\* The text of the tree x when it is the whole path
ItemText(x) ==
    LET path == Encode(x, TRUE).buf
        v == jspInit(path)
    IN  printJsonPathItem(path, [text |-> << >>, err |-> OK], v, FALSE,
                          v.type # "jpiSequence", 0).text

\* The text of the successors of x, printed after x
SuccessorText(x) ==
    IF x.next = NULL THEN << >>
    ELSE LET path == Encode(x.next[1], TRUE).buf
         IN  printJsonPathItem(path, [text |-> << >>, err |-> OK],
                               jspInit(path), TRUE, TRUE, 0).text

Occurs(sub, text) ==
    \E i \in 0..(Len(text) - Len(sub)) : SubSeq(text, i + 1, i + Len(sub)) = sub

\* The priority table of the claim: sequence < or < and < comparisons and
\* starts-with < add, sub < mul, div, mod < unary plus, minus < the rest
ClaimedPriority(type) ==
    CASE type = "jpiSequence" -> 0
      [] type = "jpiOr" -> 1
      [] type = "jpiAnd" -> 2
      [] type \in {"jpiEqual", "jpiNotEqual", "jpiLess", "jpiGreater",
                   "jpiLessOrEqual", "jpiGreaterOrEqual", "jpiStartsWith"} -> 3
      [] type \in {"jpiAdd", "jpiSub"} -> 4
      [] type \in {"jpiMul", "jpiDiv", "jpiMod"} -> 5
      [] type \in {"jpiPlus", "jpiMinus"} -> 6
      [] OTHER -> 7

IsOperator(type) == type \in OperatorTypes \cup {"jpiSequence"}

\* The operator item x alone, without parentheses around it
BareText(x) ==
    LET own == ItemText([x EXCEPT !.next = NULL])
    IN  IF x.type = "jpiSequence" THEN own
        ELSE SubSeq(own, 2, Len(own) - 1)

\* The text the claim gives the operand x of an operator of kind parent
ClaimedOperandText(x, parent) ==
    IF ~IsOperator(x.type) THEN ItemText(x)
    ELSE (IF ClaimedPriority(x.type) <= ClaimedPriority(parent)
          THEN << "(" >> \o BareText(x) \o << ")" >>
          ELSE BareText(x)) \o SuccessorText(x)

\* The text the claim gives an operator item whose operands are printed by
\* the rule above, the whole in parentheses
ClaimedOperatorText(x) ==
    << "(" >>
        \o (CASE x.type \in BinaryTypes ->
                    ClaimedOperandText(x.kids[1][1], x.type)
                        \o << " " >> \o jspOperationName(x.type) \o << " " >>
                        \o ClaimedOperandText(x.kids[2][1], x.type)
              [] x.type = "jpiLikeRegex" ->
                    ClaimedOperandText(x.kids[1][1], x.type)
                        \o << " ", "l", "i", "k", "e", "_", "r", "e", "g", "e", "x", " " >> \o escape_json(x.str)
              [] x.type = "jpiPlus" ->
                    << "+" >> \o ClaimedOperandText(x.kids[1][1], x.type)
              [] x.type = "jpiMinus" ->
                    << "-" >> \o ClaimedOperandText(x.kids[1][1], x.type))
        \o << ")" >>

(***************************************************************************)
(* C6.  An operand of a binary operator, of unary plus or minus or of      *)
(* like_regex is printed in parentheses if and only if it is itself an     *)
(* operator whose priority is <= the priority of the parent;               *)
(* $.a + $.ab * 2 keeps the product bare, ($.a + $.ab) * 2 keeps the sum   *)
(* in parentheses.                                                         *)
(***************************************************************************)
C6_OperandParentheses ==
    Printed =>
        /\ (expr \in OperandTrees =>
                out.text = Prefix(lax, ext) \o ClaimedOperatorText(expr))
        /\ (expr = ExampleSumProduct =>
                out.text = Prefix(lax, ext) \o << "(", "$", ".", "\"", "a", "\"", " ", "+", " ", "$", ".", "\"", "a", "b", "\"", " ", "*", " ", "2", ")" >>)
        /\ (expr = ExampleProductOfSum =>
                out.text = Prefix(lax, ext) \o << "(", "(", "$", ".", "\"", "a", "\"", " ", "+", " ", "$", ".", "\"", "a", "b", "\"", ")", " ", "*", " ", "2", ")" >>)

C6_Witness ==
    /\ Printed
    /\ expr \in OperandTrees
    /\ expr.type = "jpiMul"
    /\ expr.kids[1][1].type = "jpiAdd"
    /\ expr.kids[1][1].next = NULL

(***************************************************************************)
(* C7.  Claimed: a binary operator or unary plus / minus that has a        *)
(* successor is printed in parentheses before the successor, wherever it   *)
(* stands.  The printer does so only where the caller asks for             *)
(* parentheses: at the top, and as an operand of an operator of the same   *)
(* or a higher priority.                                                   *)
(***************************************************************************)
\* "(" body ")" ".type()" for the chained operator of kind type over $.a, 2
WrappedChainText(type) ==
    << "(" >>
        \o (IF type \in BinaryTypes
            THEN ItemText(PathA) \o << " " >> \o jspOperationName(type)
                     \o << " ", "2" >>
            ELSE << (IF type = "jpiPlus" THEN "+" ELSE "-") >>
                     \o ItemText(PathA))
        \o << ")", ".", "t", "y", "p", "e", "(", ")" >>

RECURSIVE Subtrees(_)
Subtrees(item) ==
    {item}
        \cup UNION {Subtrees(item.kids[i][1]) :
                       i \in {j \in 1..Len(item.kids) : item.kids[j] # NULL}}
        \cup (IF item.next = NULL THEN {} ELSE Subtrees(item.next[1]))

C7_ChainedOperatorWrapped ==
    Printed =>
        \A x \in Subtrees(expr) \cap ChainedOperators :
            Occurs(WrappedChainText(x.type), out.text)

(***************************************************************************)
(* C8.  Claimed: the lax path $.a[*].type() without extensions is encoded  *)
(* as the root and a chain of three childless items (key a, [*], .type()   *)
(* with no successor) and is printed as $.a[*].type().  The key is printed *)
(* as a JSON string, so the text is $."a"[*].type().                       *)
(***************************************************************************)
\* The kinds along the successor chain from the item at v
RECURSIVE ChainTypes(_, _)
ChainTypes(path, v) ==
    << v.type >>
        \o (IF jspHasNext(v) THEN ChainTypes(path, jspGetNext(path, v))
            ELSE << >>)

C8_ChainPrintedUnquoted ==
    (Printed /\ expr = ExampleChain /\ lax /\ ~ext) =>
        out.text = << "$", ".", "a", "[", "*", "]", ".", "t", "y", "p", "e", "(", ")" >>

\* C8, amended.  The path is encoded as the chain root, key "a", [*],
\* .type() of four items in all, the last with next = 0, and printed as
\* $."a"[*].type().
C8_ChainPrinted ==
    (expr = ExampleChain /\ lax /\ ~ext) =>
        /\ pc # "parsed" => err = OK
        /\ Encoded =>
              /\ ChainTypes(buf, jspInit(buf))
                    = << "jpiRoot", "jpiKey", "jpiAnyArray", "jpiType" >>
              /\ Cardinality(nodes) = 4
              /\ jspGetString(buf, jspGetNext(buf, jspInit(buf))) = << 97 >>
        /\ out.done =>
              /\ out.err = OK
              /\ out.text = << "$", ".", "\"", "a", "\"", "[", "*", "]", ".", "t", "y", "p", "e", "(", ")" >>

C8_Witness == Printed /\ expr = ExampleChain /\ lax /\ ~ext

(***************************************************************************)
(* C9.  Claimed: $[1 to 5, 7], which has no array constructor, object or   *)
(* sequence, fails to encode without extensions.  No check is made for a   *)
(* subscript item: it is encoded with and without extensions.              *)
(***************************************************************************)
C9_SubscriptsNeedExtensions ==
    (pc # "parsed" /\ expr = ExampleSubscripts /\ ~ext) => err = ERR_EXTENSIONS

\* C9, amended.  $[1 to 5, 7] is encoded with extensions disabled and with
\* extensions enabled, and the subscript is printed as [1 to 5,7].
C9_SubscriptsPrinted ==
    expr = ExampleSubscripts =>
        /\ pc # "parsed" => err = OK
        /\ out.done =>
              /\ out.err = OK
              /\ out.text = Prefix(lax, ext) \o << "$", "[", "1", " ", "t", "o", " ", "5", ",", "7", "]" >>

C9_Witness == Printed /\ expr = ExampleSubscripts /\ ~ext

(***************************************************************************)
(* C10.  Claimed: a comparison flags the expression mutable if and only if *)
(* neither operand is not-a-datetime and either one is zoned and the other *)
(* non-zoned, or one is unknown and the other zoned or non-zoned.  The     *)
(* walker also flags a comparison of two unknown operands.                 *)
(***************************************************************************)
\* The status of each operand explored: .datetime() without a template is
\* unknown, with a template it is what the template says, a variable has
\* the status of its declared type, [*] keeps the status in lax mode only,
\* every other item is not a datetime.
OperandStatus(x, current) ==
    CASE x = DatetimeUnknown -> jpdsUnknownDateTime
      [] x = DatetimeOf(<< 72, 72 >>) -> jpdsDateTimeNonZoned
      [] x = DatetimeOf(<< 84, 90 >>) -> jpdsDateTimeZoned
      [] x = Then(DatetimeUnknown, Leaf("jpiAnyArray")) ->
            IF lax THEN jpdsUnknownDateTime ELSE jpdsNonDateTime
      [] x = Variable(<< 97 >>) /\ varlist = DatetimeVars -> jpdsDateTimeZoned
      [] x = Variable(<< 98 >>) /\ varlist = DatetimeVars ->
            jpdsDateTimeNonZoned
      [] x = Leaf("jpiCurrent") -> current
      [] OTHER -> jpdsNonDateTime

RECURSIVE LastOfChain(_)
LastOfChain(x) == IF x.next = NULL THEN x ELSE LastOfChain(x.next[1])

RECURSIVE ChainBeforeLast(_)
ChainBeforeLast(x) ==
    IF x.next[1].next = NULL THEN [x EXCEPT !.next = NULL]
    ELSE [x EXCEPT !.next = Ptr(ChainBeforeLast(x.next[1]))]

\* The comparison in expr, and the status of its left and right operands
TheComparison ==
    IF expr.type \in ComparisonTypes THEN expr
    ELSE LastOfChain(expr).kids[1][1]

SubjectStatus ==
    IF expr.type \in ComparisonTypes THEN jpdsNonDateTime
    ELSE OperandStatus(ChainBeforeLast(expr), jpdsNonDateTime)

LeftStatus == OperandStatus(TheComparison.kids[1][1], SubjectStatus)

RightStatus == OperandStatus(TheComparison.kids[2][1], SubjectStatus)

Concrete(status) == status \in {jpdsDateTimeZoned, jpdsDateTimeNonZoned}

C10_MutableIffZoneMismatch ==
    (mut.done /\ expr \in ComparisonTrees) =>
        (mut.mutable <=>
            /\ LeftStatus # jpdsNonDateTime
            /\ RightStatus # jpdsNonDateTime
            /\ \/ Concrete(LeftStatus) /\ Concrete(RightStatus)
                    /\ LeftStatus # RightStatus
               \/ LeftStatus = jpdsUnknownDateTime /\ Concrete(RightStatus)
               \/ Concrete(LeftStatus) /\ RightStatus = jpdsUnknownDateTime)

\* C10, amended.  A comparison flags the expression mutable if and only if
\* neither operand is not-a-datetime and either at least one operand is
\* unknown (two unknown operands included) or one is zoned and the other
\* non-zoned.
C10_MutableIffUnknownOrMismatch ==
    (mut.done /\ expr \in ComparisonTrees) =>
        (mut.mutable <=>
            /\ LeftStatus # jpdsNonDateTime
            /\ RightStatus # jpdsNonDateTime
            /\ \/ LeftStatus = jpdsUnknownDateTime
               \/ RightStatus = jpdsUnknownDateTime
               \/ LeftStatus # RightStatus)

C10_Witness ==
    /\ mut.done
    /\ mut.mutable
    /\ expr = Binary("jpiLess", DatetimeUnknown, Variable(<< 97 >>))
    /\ varlist = DatetimeVars

(***************************************************************************)
(* C11.  Claimed: a variable reference takes the status of the declared    *)
(* type of the first entry of the variable list whose name is equal to the *)
(* referenced name, and not-a-datetime when no name is equal; a declared   *)
(* name that only begins with the referenced name is no match.  The walker *)
(* compares only the first len bytes, len the length of the referenced     *)
(* name, so a declared abc matches $ab.                                    *)
(***************************************************************************)
RECURSIVE StatusByEqualName(_, _)
StatusByEqualName(declared, name) ==
    IF declared = << >> THEN jpdsNonDateTime
    ELSE IF declared[1].name # name
    THEN StatusByEqualName(Tail(declared), name)
    ELSE CASE declared[1].type \in {"DATEOID", "TIMEOID", "TIMESTAMPOID"} ->
                  jpdsDateTimeNonZoned
           [] declared[1].type \in {"TIMETZOID", "TIMESTAMPTZOID"} ->
                  jpdsDateTimeZoned
           [] OTHER -> jpdsNonDateTime

\* The status of the probe a variable is compared with
ProbeStatus(p) ==
    CASE p = DatetimeUnknown -> jpdsUnknownDateTime
      [] p = DatetimeOf(<< 72, 72 >>) -> jpdsDateTimeNonZoned
      [] p = DatetimeOf(<< 84, 90 >>) -> jpdsDateTimeZoned

\* Whether a comparison of operands of these statuses is flagged
FlaggedStatuses(l, r) ==
    /\ l # jpdsNonDateTime
    /\ r # jpdsNonDateTime
    /\ (l = jpdsUnknownDateTime \/ r = jpdsUnknownDateTime \/ l # r)

C11_VariableByEqualName ==
    (mut.done /\ expr \in VariableTrees) =>
        (mut.mutable <=>
            FlaggedStatuses(
                StatusByEqualName(varlist, expr.kids[1][1].str),
                ProbeStatus(expr.kids[2][1])))

(***************************************************************************)
(* C12.  Claimed: the analysis returns true whenever a comparison that     *)
(* satisfies the mutable condition stands anywhere below the top: under    *)
(* operator arguments, filter predicates, subscripts, the like_regex       *)
(* operand and the elements of array constructors, objects and sequences.  *)
(* The walker has no case for array constructors, objects and sequences    *)
(* and does not descend into them.                                         *)
(***************************************************************************)
C12_NestedComparisonFound ==
    (mut.done /\ expr \in NestedComparisonTrees) => mut.mutable

UnpatchedSlots(cxt) == cxt.slots \ cxt.patched

UnpatchedArraySlots(cxt) == cxt.spaces \ cxt.patched

\* 0x20202020
FourSpaces == ReadInt32(<< 32, 32, 32, 32 >>, 0)

C14_UnpatchedReadZero ==
    pc # "parsed" =>
        \A cxt \in {Encode(expr, ext)} :
            \A s \in UnpatchedSlots(cxt) : ReadInt32(buf, s) = 0

\* C14, amended.  A field reserved by reserveSpaceForItemPointer() (next,
\* left, right, argument, like_regex expression) reads 0 until it is stored
\* to; a field of a from/to, element or key/value array reads 0x20202020
\* until it is stored to, and such fields are left only in a buffer that an
\* error abandoned.
C14_UnpatchedReadZeroOrSpaces ==
    pc # "parsed" =>
        \A cxt \in {Encode(expr, ext)} :
            /\ \A s \in UnpatchedSlots(cxt) \ UnpatchedArraySlots(cxt) :
                  ReadInt32(buf, s) = 0
            /\ \A s \in UnpatchedArraySlots(cxt) :
                  ReadInt32(buf, s) = FourSpaces
            /\ Encoded => UnpatchedArraySlots(cxt) = {}

C14_Witness ==
    /\ pc = "failed"
    /\ \E cxt \in {Encode(expr, ext)} :
          /\ UnpatchedArraySlots(cxt) # {}
          /\ UnpatchedSlots(cxt) \ UnpatchedArraySlots(cxt) # {}

(***************************************************************************)
(* C15.  Claimed: a key accessor, key wildcard or item method other than   *)
(* .datetime() that follows a variable or .datetime() hands the datetime   *)
(* status on unchanged.  The walker sets the status to not-a-datetime at   *)
(* each of these steps.                                                    *)
(***************************************************************************)
\* The last step of the chain compared in expr
TheStep == LastOfChain(expr.kids[1][1])

\* The chain has a datetime status after its last step: the comparison with
\* $.datetime() is flagged
StatusKept == mut.mutable

C15_AccessorKeepsStatus ==
    (mut.done /\ expr \in ChainTrees /\ TheStep \in AccessorSteps) =>
        StatusKept

\* C15, amended.  After a key accessor, key wildcard or item method other
\* than .datetime() the status of the chain is not-a-datetime, whatever
\* status the variable or .datetime() before it produced.
C15_AccessorCollapsesStatus ==
    (mut.done /\ expr \in ChainTrees /\ TheStep \in AccessorSteps) =>
        ~StatusKept

C15_Witness ==
    /\ mut.done
    /\ ~mut.mutable
    /\ expr = Binary("jpiEqual", Then(DatetimeOf(<< 84, 90 >>), Leaf("jpiType")),
                     DatetimeUnknown)

(***************************************************************************)
(* C16.  Claimed: the status collapses to not-a-datetime exactly at a      *)
(* recursive descent with a nonzero minimum depth and at a wildcard array  *)
(* step of a strict path; a descent from depth 0, a wildcard array step of *)
(* a lax path and a filter keep it.  The walker also collapses it at a     *)
(* subscript step of a strict path and at accessors and methods.           *)
(***************************************************************************)
C16_CollapseOnlyAtDescentAndWildcard ==
    (mut.done /\ expr \in ChainTrees) =>
        (~StatusKept <=>
            \/ TheStep.type = "jpiAny" /\ TheStep.num # 0
            \/ TheStep.type = "jpiAnyArray" /\ ~lax)

\* C16, amended.  The status collapses to not-a-datetime exactly at a
\* recursive descent with a nonzero minimum depth, at a wildcard array or
\* subscript step of a strict path, and at a key accessor, key wildcard or
\* item method other than .datetime(); a descent from depth 0, a wildcard
\* array or subscript step of a lax path and a filter keep it.
C16_CollapseSteps ==
    (mut.done /\ expr \in ChainTrees) =>
        (~StatusKept <=>
            \/ TheStep.type = "jpiAny" /\ TheStep.num # 0
            \/ TheStep.type \in {"jpiAnyArray", "jpiIndexArray"} /\ ~lax
            \/ TheStep \in AccessorSteps)

C16_Witness ==
    /\ mut.done
    /\ mut.mutable
    /\ ~lax
    /\ expr \in ChainTrees
    /\ TheStep = AnyItem(0, PG_UINT32_MAX)

(***************************************************************************)
(* C17.  While the predicate of a filter is walked, @ has the status the   *)
(* chain had when it reached the filter, and when the walk of the filter   *)
(* returns the current status of the context is what it was before the     *)
(* filter, for nested filters and whether or not the mutable flag was set  *)
(* in the predicate.                                                       *)
(***************************************************************************)
\* In s ? (exists (t ? (@ == p)) && @ == q): the predicate of the outer
\* filter, the chain t ? (...) and the two comparisons
OuterPredicate == LastOfChain(expr).kids[1][1]

InnerChain == OuterPredicate.kids[1][1].kids[1][1]

InnerComparison == LastOfChain(InnerChain).kids[1][1]

OuterComparison == OuterPredicate.kids[2][1]

\* The status of s, which @ has in the outer predicate, and of t, which @
\* has in the inner one
OuterCurrent == OperandStatus(ChainBeforeLast(expr), jpdsNonDateTime)

InnerCurrent == OperandStatus(ChainBeforeLast(InnerChain), OuterCurrent)

C17_FilterCurrentStatus ==
    (mut.done /\ expr \in NestedFilterTrees) =>
        /\ mut.mutable <=>
              \/ FlaggedStatuses(
                     InnerCurrent,
                     OperandStatus(InnerComparison.kids[2][1], InnerCurrent))
              \/ FlaggedStatuses(
                     OuterCurrent,
                     OperandStatus(OuterComparison.kids[2][1], OuterCurrent))
        /\ \A d \in CallDepths :
              Analysis(buf, varlist, d).current = jpdsNonDateTime

\* $.datetime("TZ") ? (exists ($.a ? (@ == $.datetime())) && @ ==
\* $.datetime("HH")): only the @ after the inner filter is flagged
C17_Witness ==
    /\ mut.done
    /\ mut.mutable
    /\ expr \in NestedFilterTrees
    /\ OuterCurrent = jpdsDateTimeZoned
    /\ InnerCurrent = jpdsNonDateTime
    /\ OuterComparison.kids[2][1] = DatetimeOf(<< 72, 72 >>)

(***************************************************************************)
(* C18.  Claimed: the encode, the print and the mutability analysis each   *)
(* check the recursion depth at every recursive entry, so a walk that      *)
(* stands deeper than the limit ends with the depth error.                 *)
(* flattenJsonPathParseItem() and printJsonPathItem() begin with           *)
(* check_stack_depth(); jspIsMutableWalker() has no such call: it stands   *)
(* deeper than the limit and returns a result, or runs to the end of the   *)
(* stack.                                                                  *)
(***************************************************************************)
C18_DepthCheckedOnEveryEntry ==
    /\ (out.done /\ out.err # OK) => out.err = ERR_STACK_DEPTH
    /\ (mut.done /\ mut.deepest > MaxStackDepth) => mut.err = ERR_STACK_DEPTH

(***************************************************************************)
(* C19.  The encoder and the cursor agree on the layout: for every parse   *)
(* tree the encode accepts, the cursor at position 0, followed through     *)
(* every accessor, gives back the kinds, the payloads, the children in     *)
(* their order and the successor chains of the tree; a subscript without   *)
(* a to-bound and an item without a successor are read as having none.     *)
(***************************************************************************)
\* The n bytes at position p
PathBytes(path, p, n) == [i \in 1..n |-> PathByte(path, p + i - 1)]

\* The parse item that the cursor v and everything reached from it describe
RECURSIVE Decode(_, _)
Decode(path, v) ==
    LET child(c) == Ptr(Decode(path, c))
        str == CASE v.type \in StringTypes ->
                        PathBytes(path, v.data, v.datalen)
                 [] v.type = "jpiLikeRegex" ->
                        PathBytes(path, v.pattern, v.patternlen)
                 [] OTHER -> << >>
        num == CASE v.type = "jpiNumeric" -> jspGetNumeric(path, v)
                 [] v.type = "jpiBool" ->
                        IF jspGetBool(path, v) THEN 1 ELSE 0
                 [] v.type = "jpiLikeRegex" -> v.flags
                 [] v.type = "jpiAny" -> v.first
                 [] OTHER -> 0
        num2 == IF v.type = "jpiAny" THEN v.last ELSE 0
        kids == CASE v.type \in BinaryTypes ->
                         << child(jspGetLeftArg(path, v)),
                            child(jspGetRightArg(path, v)) >>
                  [] v.type \in ArgTypes ->
                         << IF v.arg = 0 THEN NULL
                            ELSE child(jspGetArg(path, v)) >>
                  [] v.type = "jpiLikeRegex" ->
                         << child(jspInitByBuffer(path, v.base, v.expr)) >>
                  [] v.type = "jpiIndexArray" ->
                         [k \in 1..(2 * v.nelems) |->
                             LET i == (k - 1) \div 2
                             IN  IF k % 2 = 1
                                 THEN child(jspInitByBuffer(path, v.base,
                                                SubscriptFrom(path, v, i)))
                                 ELSE IF jspGetArraySubscript(path, v, i)
                                 THEN child(jspInitByBuffer(path, v.base,
                                                SubscriptTo(path, v, i)))
                                 ELSE NULL]
                  [] v.type = "jpiSequence" ->
                         [k \in 1..v.nelems |->
                             child(jspGetSequenceElement(path, v, k - 1))]
                  [] v.type = "jpiObject" ->
                         [k \in 1..(2 * v.nelems) |->
                             IF k % 2 = 1
                             THEN child(jspGetObjectKey(path, v, (k - 1) \div 2))
                             ELSE child(jspGetObjectVal(path, v, (k - 1) \div 2))]
                  [] OTHER -> << >>
    IN  Item(v.type, str, num, num2, kids,
             IF jspHasNext(v) THEN child(jspGetNext(path, v)) ELSE NULL)

C19_CursorReadsTheTree ==
    Encoded => Decode(buf, jspInit(buf)) = expr

\* $[1] like_regex "a": a subscript without a to-bound, followed by an item
\* with a child, a pattern and flags
C19_Witness ==
    /\ Encoded
    /\ expr = Wrap("subscriptNext", Wrap("regexExpr", Leaf("jpiRoot")))
    /\ Decode(buf, jspInit(buf)).kids[1] # NULL
    /\ Decode(buf, jspInit(buf)).kids[2] = NULL

====
